---- MODULE Spec2Model ----
(***************************************************************************)
(* Model of netavark's firewall core:                                      *)
(*   src/src/firewall/iptables.rs  the iptables driver (chains and rules)  *)
(*   src/src/firewall/state.rs     the on-disk firewall config store       *)
(*                                                                         *)
(* Rules are the very strings the driver renders with format!; a chain is  *)
(* an ordered list of such strings and two rules are the same rule when    *)
(* their texts are equal.  The packet-filter backend (the iptables crate)  *)
(* is the environment: its primitives are modelled with the behaviour of   *)
(* iptables(8) (append to a missing chain fails, a jump to a missing chain *)
(* is rejected, a referenced chain cannot be deleted).                     *)
(***************************************************************************)
EXTENDS Integers, Sequences, FiniteSets, TLC

VARIABLES
    fw,        \* firewall: [<<table, chain>> -> sequence of rule texts]; DOMAIN = existing chains
    sysctl,    \* set of sysctl keys set to "1" by apply_sysctl_value
    last,      \* the last driver call: operation, arguments, result
    netsEver,  \* networks for which setup_network has returned Ok at least once
    pfEver,    \* port-forward calls for which setup_port_forward has returned Ok at least once
    pfActive,  \* port-forward calls set up and not torn down since
    nops,      \* number of driver / store calls made so far
    dirs,      \* config store: existing directories (paths)
    files,     \* config store: [path -> content] of the existing regular files
    slast,     \* the last config-store call: operation, arguments, result
    written,   \* what the calls so far are meant to have stored: driver, nets, ports
    procs      \* concurrent invocations: per process its helper calls and its position

fwvars == <<fw, sysctl, last, netsEver, pfEver, pfActive, procs>>
stvars == <<dirs, files, slast, written>>
vars == <<fw, sysctl, last, netsEver, pfEver, pfActive, nops, dirs, files, slast, written, procs>>

\* Bound on the number of calls of one behaviour.
MaxOps == 4

----------------------------------------------------------------------------
(* Option<T> and small helpers *)

Some(v) == [some |-> TRUE, v |-> v]
None == [some |-> FALSE, v |-> <<>>]

Range(s) == {s[i] : i \in DOMAIN s}

Count(s, x) == Cardinality({i \in DOMAIN s : s[i] = x})

RECURSIVE Flatten(_)
Flatten(ss) == IF ss = <<>> THEN <<>> ELSE Head(ss) \o Flatten(Tail(ss))

RemoveAt(s, i) == SubSeq(s, 1, i - 1) \o SubSeq(s, i + 1, Len(s))

InsertAt(s, i, x) == SubSeq(s, 1, i - 1) \o <<x>> \o SubSeq(s, i, Len(s))

FirstIndex(s, x) == CHOOSE i \in DOMAIN s : s[i] = x /\ \A j \in 1..(i - 1) : s[j] # x

----------------------------------------------------------------------------
(* Constants of iptables.rs *)

HEXMARK == "0x2000"
NAT == "nat"
PRIV_CHAIN_NAME == "NETAVARK_FORWARD"
HOSTPORT_DNAT_CHAIN == "NETAVARK-HOSTPORT-DNAT"
HOSTPORT_SETMARK_CHAIN == "NETAVARK-HOSTPORT-SETMARK"
NETAVARK_HOSTPORT_MASK_CHAIN == "NETAVARK-HOSTPORT-MASQ"
CONTAINER_DN_CHAIN == "NETAVARK-DN-"
CONTAINER_CHAIN == "NETAVARK-"
PREROUTING_CHAIN == "PREROUTING"
OUTPUT_CHAIN == "OUTPUT"
POSTROUTING_JUMP == "POSTROUTING"
FILTER_JUMP == "filter"
MARK_JUMP == "MARK"
DNAT_JUMP == "DNAT"
MASQ_JUMP == "MASQUERADE"
ACCEPT_JUMP == "ACCEPT"
FORWARD == "FORWARD"

----------------------------------------------------------------------------
(* Rule texts, as rendered by format! in iptables.rs *)

nat_rule(subnet) == "-d " \o subnet \o " -j " \o ACCEPT_JUMP

masq_rule == "! -d 224.0.0.0/4 -j MASQUERADE"

netavark_fw ==
    "-m comment --comment 'netavark firewall plugin rules' -j " \o PRIV_CHAIN_NAME

allow_incoming_rule(subnet) ==
    "-d " \o subnet \o " -m conntrack --ctstate RELATED,ESTABLISHED -j ACCEPT"

allow_outgoing_rule(subnet) == "-s " \o subnet \o " -j ACCEPT"

comment_network_cid(network_name, container_id) ==
    "-m comment --comment 'name: " \o network_name \o " id: " \o container_id \o "'"

comment_dn_network_cid(network_name, container_id) ==
    "-m comment --comment 'dnat name: " \o network_name \o " id: " \o container_id \o "'"

prerouting_rule == "-j " \o HOSTPORT_DNAT_CHAIN \o " -m addrtype --dst-type LOCAL"

portmap_output_rule == "-j " \o HOSTPORT_DNAT_CHAIN \o " -m addrtype --dst-type LOCAL"

setmark_rule ==
    "-j " \o MARK_JUMP \o "  --set-xmark " \o HEXMARK \o "/" \o HEXMARK

hostport_masq_rule ==
    "-j " \o MASQ_JUMP \o " -m comment --comment 'netavark portfw masq mark' -m mark --mark "
        \o HEXMARK \o "/" \o HEXMARK

postrouting_masq_jump == "-j " \o NETAVARK_HOSTPORT_MASK_CHAIN \o " "

postrouting_container_rule(network_chain_name, container_ip, comment) ==
    "-j " \o network_chain_name \o " -s " \o container_ip \o " " \o comment

hostport_dnat_rule(network_dn_chain_name, host_port, comment_dn) ==
    "-j " \o network_dn_chain_name \o " -p tcp -m multiport --destination-ports "
        \o ToString(host_port) \o " " \o comment_dn

setmark_network_rule(container_network_address, host_port) ==
    "-j " \o HOSTPORT_SETMARK_CHAIN \o " -s " \o container_network_address
        \o " -p tcp --dport " \o ToString(host_port)

setmark_localhost_rule(host_port) ==
    "-j " \o HOSTPORT_SETMARK_CHAIN \o " -s 127.0.0.1 -p tcp --dport " \o ToString(host_port)

container_dest_rule(container_ip, container_port, host_port) ==
    "-j " \o DNAT_JUMP \o " -p tcp --to-destination " \o container_ip \o ":"
        \o ToString(container_port) \o " --destination-port " \o ToString(host_port)

network_chain_name(id_network_hash) == CONTAINER_CHAIN \o id_network_hash

network_dn_chain_name(id_network_hash) == CONTAINER_DN_CHAIN \o id_network_hash

----------------------------------------------------------------------------
(* Inputs of the driver calls *)

PortMapping(host_port, container_port) ==
    [host_port |-> host_port, container_port |-> container_port]

\* types::Network, reduced to the two fields the driver reads.
Network(subnets, network_interface) ==
    [subnets |-> subnets, network_interface |-> network_interface]

\* A network as the caller passes it to setup_network / teardown_network.
NetCall(network_name, network_hash_name, net) ==
    [network_name |-> network_name, network_hash_name |-> network_hash_name, net |-> net]

NetA == NetCall("name", "hash", Network(Some(<<"10.0.0.0/24">>), Some("br0")))
NetB == NetCall("net2", "hash2", Network(Some(<<"10.1.0.0/24", "10.2.0.0/24">>), None))
NetNone == NetCall("net0", "hash0", Network(None, None))
NetEmpty == NetCall("net9", "hash9", Network(Some(<<>>), None))

NetCalls == {NetA, NetB, NetNone}

\* The arguments of setup_port_forward; teardown_port_forward gets the same fields
\* in TeardownPortForward, plus complete_teardown.
PfCall(n, container_id, port_mappings, static_ips) ==
    [network |-> n.net, container_id |-> container_id, port_mappings |-> port_mappings,
     network_name |-> n.network_name, id_network_hash |-> n.network_hash_name,
     static_ips |-> static_ips]

\* Container 123 on network `name`: the scenario of the spec.
PfA1 == PfCall(NetA, "123", <<PortMapping(8080, 80)>>, Some(<<"10.0.0.2">>))
\* Container 456 on the same network publishes host port 8080 too (on another
\* host address or protocol, neither of which the driver renders) and 8443.
PfA2 == PfCall(NetA, "456", <<PortMapping(8080, 80), PortMapping(8443, 443)>>,
               Some(<<"10.0.0.3">>))
\* Container 123 attached to a second network.
PfB1 == PfCall(NetB, "123", <<PortMapping(8081, 80)>>, Some(<<"10.1.0.2">>))
\* Calls that lack an address.
PfNoIp == PfCall(NetA, "789", <<PortMapping(9090, 90)>>, None)
PfNoSubnet == PfCall(NetNone, "789", <<PortMapping(9090, 90)>>, Some(<<"10.9.0.2">>))
PfEmptyIp == PfCall(NetA, "789", <<PortMapping(9090, 90)>>, Some(<<>>))
PfEmptySubnet == PfCall(NetEmpty, "789", <<PortMapping(9090, 90)>>, Some(<<"10.9.0.2">>))

GoodPfCalls == {PfA1, PfA2, PfB1}
BadPfCalls == {PfNoIp, PfNoSubnet, PfEmptyIp, PfEmptySubnet}
PfCalls == GoodPfCalls \cup BadPfCalls

\* Chains every table holds from boot; they cannot be created or deleted.
BuiltinChains == {<<FILTER_JUMP, FORWARD>>, <<NAT, PREROUTING_CHAIN>>,
                  <<NAT, OUTPUT_CHAIN>>, <<NAT, POSTROUTING_JUMP>>}

\* Rules of the host administrator, present before netavark runs.
AdminForwardRule == "-j REJECT --reject-with icmp-host-prohibited"
AdminPostroutingRule == "-s 192.168.122.0/24 -j MASQUERADE"

\* The firewall of a host on which netavark has not run: the built-in chains,
\* with or without rules of the administrator.
HostFirewall(admin) ==
    [k \in BuiltinChains |->
        IF ~admin THEN <<>>
        ELSE IF k = <<FILTER_JUMP, FORWARD>> THEN <<AdminForwardRule>>
        ELSE IF k = <<NAT, POSTROUTING_JUMP>> THEN <<AdminPostroutingRule>>
        ELSE <<>>]

----------------------------------------------------------------------------
(* The helper calls of the four driver operations.  Each operation is a   *)
(* straight-line sequence of helper calls, every one followed by `?`.      *)

\* One helper call, as data.
Call(kind, table, chain, rule) ==
    [kind |-> kind, table |-> table, chain |-> chain, rule |-> rule]

\* Body of setup_network's loop for one subnet.
setup_network_subnet(subnet, network_hash_name) ==
    LET prefixed_network_hash_name == "NETAVARK" \o "-" \o network_hash_name
    IN << Call("add_chain_unique", NAT, prefixed_network_hash_name, ""),
          Call("append_unique", NAT, prefixed_network_hash_name, nat_rule(subnet)),
          Call("append_unique", NAT, prefixed_network_hash_name, masq_rule),
          Call("add_chain_unique", FILTER_JUMP, PRIV_CHAIN_NAME, ""),
          Call("insert_first_unique", FILTER_JUMP, FORWARD, netavark_fw),
          Call("append_unique", FILTER_JUMP, PRIV_CHAIN_NAME, allow_incoming_rule(subnet)),
          Call("append_unique", FILTER_JUMP, PRIV_CHAIN_NAME, allow_outgoing_rule(subnet)) >>

\* setup_network: the loop over the subnets; nothing for a network without subnets.
setup_network_calls(net, network_hash_name) ==
    IF net.subnets.some
    THEN Flatten([i \in DOMAIN net.subnets.v |->
                     setup_network_subnet(net.subnets.v[i], network_hash_name)])
    ELSE <<>>

\* Mutant: the allow rules are asserted and never removed.
teardown_network_subnet_rules_kept(subnet, complete_teardown) ==
    << Call("append_unique", FILTER_JUMP, PRIV_CHAIN_NAME, allow_incoming_rule(subnet)),
       Call("append_unique", FILTER_JUMP, PRIV_CHAIN_NAME, allow_outgoing_rule(subnet)) >>

\* Body of teardown_network's loop for one subnet.
teardown_network_subnet(subnet, complete_teardown) ==
    << Call("append_unique", FILTER_JUMP, PRIV_CHAIN_NAME, allow_incoming_rule(subnet)),
       Call("append_unique", FILTER_JUMP, PRIV_CHAIN_NAME, allow_outgoing_rule(subnet)) >>
    \o (IF complete_teardown
        THEN << Call("remove_if_rule_exists", FILTER_JUMP, PRIV_CHAIN_NAME,
                     allow_incoming_rule(subnet)),
                Call("remove_if_rule_exists", FILTER_JUMP, PRIV_CHAIN_NAME,
                     allow_outgoing_rule(subnet)) >>
        ELSE <<>>)

\* Mutant: a complete teardown also removes the jump rule from FORWARD.
teardown_network_calls_jump_removed(net, complete_teardown) ==
    IF net.subnets.some
    THEN Flatten([i \in DOMAIN net.subnets.v |->
                     teardown_network_subnet(net.subnets.v[i], complete_teardown)])
         \o (IF complete_teardown
             THEN << Call("remove_if_rule_exists", FILTER_JUMP, FORWARD, netavark_fw) >>
             ELSE <<>>)
    ELSE <<>>

\* teardown_network: the loop over the subnets.
teardown_network_calls(net, complete_teardown) ==
    IF net.subnets.some
    THEN Flatten([i \in DOMAIN net.subnets.v |->
                     teardown_network_subnet(net.subnets.v[i], complete_teardown)])
    ELSE <<>>

\* Mutant: the DNAT rule rewrites to the host port instead of the container port.
port_rules_host_port(pm, id_network_hash, network_name, container_id, container_ip, container_network_address) ==
    << [chain |-> HOSTPORT_DNAT_CHAIN,
        rule |-> hostport_dnat_rule(network_dn_chain_name(id_network_hash), pm.host_port,
                                    comment_dn_network_cid(network_name, container_id))],
       [chain |-> network_dn_chain_name(id_network_hash),
        rule |-> setmark_network_rule(container_network_address, pm.host_port)],
       [chain |-> network_dn_chain_name(id_network_hash),
        rule |-> setmark_localhost_rule(pm.host_port)],
       [chain |-> network_dn_chain_name(id_network_hash),
        rule |-> container_dest_rule(container_ip, pm.host_port, pm.host_port)] >>

\* Rules of the port loop for one mapping, in the order the loop handles them.
port_rules(pm, id_network_hash, network_name, container_id, container_ip, container_network_address) ==
    << [chain |-> HOSTPORT_DNAT_CHAIN,
        rule |-> hostport_dnat_rule(network_dn_chain_name(id_network_hash), pm.host_port,
                                    comment_dn_network_cid(network_name, container_id))],
       [chain |-> network_dn_chain_name(id_network_hash),
        rule |-> setmark_network_rule(container_network_address, pm.host_port)],
       [chain |-> network_dn_chain_name(id_network_hash),
        rule |-> setmark_localhost_rule(pm.host_port)],
       [chain |-> network_dn_chain_name(id_network_hash),
        rule |-> container_dest_rule(container_ip, pm.container_port, pm.host_port)] >>

\* The rules of a call that setup appends and teardown removes one by one: the
\* POSTROUTING rule of the container, then the port rules of every mapping.
\* container_ips[0] and networks[0] are the addresses used.
container_rules(c) ==
    << [chain |-> POSTROUTING_JUMP,
        rule |-> postrouting_container_rule(
                     network_chain_name(c.id_network_hash), c.static_ips.v[1],
                     comment_network_cid(c.network_name, c.container_id))] >>
    \o Flatten([i \in DOMAIN c.port_mappings |->
                   port_rules(c.port_mappings[i], c.id_network_hash, c.network_name,
                              c.container_id, c.static_ips.v[1], c.network.subnets.v[1])])

\* setup_port_forward, lines 203-302: the helper calls once the addresses are resolved.
setup_port_forward_calls(c) ==
    LET Appends(rules) ==
            [i \in DOMAIN rules |-> Call("append_unique", NAT, rules[i].chain, rules[i].rule)]
    IN << Call("add_chain_unique", NAT, HOSTPORT_DNAT_CHAIN, ""),
          Call("add_chain_unique", NAT, HOSTPORT_SETMARK_CHAIN, ""),
          Call("add_chain_unique", NAT, NETAVARK_HOSTPORT_MASK_CHAIN, ""),
          Call("add_chain_unique", NAT, network_dn_chain_name(c.id_network_hash), ""),
          Call("append_unique", NAT, PREROUTING_CHAIN, prerouting_rule),
          Call("append_unique", NAT, OUTPUT_CHAIN, portmap_output_rule),
          Call("append_unique", NAT, HOSTPORT_SETMARK_CHAIN, setmark_rule),
          Call("append_unique", NAT, NETAVARK_HOSTPORT_MASK_CHAIN, hostport_masq_rule),
          Call("append_unique", NAT, POSTROUTING_JUMP, postrouting_masq_jump) >>
       \o Appends(container_rules(c))

\* Mutant: a complete teardown removes the shared set-mark chain as well.
teardown_port_forward_calls_shared_removed(c, complete_teardown) ==
    LET Removes(rules) ==
            [i \in DOMAIN rules |->
                Call("remove_if_rule_exists", NAT, rules[i].chain, rules[i].rule)]
    IN Removes(container_rules(c))
       \o (IF complete_teardown
           THEN << Call("remove_chain_and_rules", NAT,
                        network_chain_name(c.id_network_hash), ""),
                   Call("remove_chain_and_rules", NAT,
                        network_dn_chain_name(c.id_network_hash), ""),
                   Call("remove_chain_and_rules", NAT, HOSTPORT_SETMARK_CHAIN, "") >>
           ELSE <<>>)

\* teardown_port_forward, lines 322-394: the helper calls once the addresses are resolved.
teardown_port_forward_calls(c, complete_teardown) ==
    LET Removes(rules) ==
            [i \in DOMAIN rules |->
                Call("remove_if_rule_exists", NAT, rules[i].chain, rules[i].rule)]
    IN Removes(container_rules(c))
       \o (IF complete_teardown
           THEN << Call("remove_chain_and_rules", NAT,
                        network_chain_name(c.id_network_hash), ""),
                   Call("remove_chain_and_rules", NAT,
                        network_dn_chain_name(c.id_network_hash), "") >>
           ELSE <<>>)

\* The call lists of the inputs, evaluated once.
NetPrograms ==
    [n \in NetCalls |->
        [setup |-> setup_network_calls(n.net, n.network_hash_name),
         teardown |-> [b \in BOOLEAN |-> teardown_network_calls(n.net, b)]]]

PfPrograms ==
    [c \in GoodPfCalls |->
        [rules |-> container_rules(c),
         setup |-> setup_port_forward_calls(c),
         teardown |-> [b \in BOOLEAN |-> teardown_port_forward_calls(c, b)]]]

\* Every rule text the inputs can put into the firewall.
KnownRules ==
    LET RulesOf(calls) == {calls[i].rule : i \in DOMAIN calls}
    IN {AdminForwardRule, AdminPostroutingRule}
       \cup UNION {RulesOf(NetPrograms[n].setup) : n \in NetCalls}
       \cup UNION {RulesOf(PfPrograms[c].setup) : c \in GoodPfCalls}

----------------------------------------------------------------------------
(* The packet-filter backend (iptables crate, IPTables): the environment.  *)

\* Targets a rule may jump to without a user chain of that name.
BuiltinTargets == {"ACCEPT", "DROP", "REJECT", "RETURN", "MASQUERADE", "MARK", "DNAT"}

\* Position of the first "-j " of a rule text at or after i, 0 when there is none.
RECURSIVE JumpAt(_, _)
JumpAt(rule, i) ==
    IF i + 2 > Len(rule) THEN 0
    ELSE IF SubSeq(rule, i, i + 2) = "-j " THEN i
    ELSE JumpAt(rule, i + 1)

\* End of the word that starts at i: the position before the next blank.
RECURSIVE WordEnd(_, _)
WordEnd(rule, i) ==
    IF i > Len(rule) \/ SubSeq(rule, i, i) = " " THEN i - 1
    ELSE WordEnd(rule, i + 1)

\* The target of a rule: the word after "-j" ("" when the rule names none).
ParseTarget(rule) ==
    LET WordAfter(j) == IF j = 0 THEN "" ELSE SubSeq(rule, j + 3, WordEnd(rule, j + 3))
    IN WordAfter(JumpAt(rule, 1))

\* The targets of the known rule texts, parsed once.
KnownTargets == [rule \in KnownRules |-> ParseTarget(rule)]

JumpTarget(rule) == KnownTargets[rule]

\* iptables accepts a rule only when its target is built in or a chain of the table.
TargetOk(f, table, rule) ==
    LET Known(t) == t \in BuiltinTargets \/ <<table, t>> \in DOMAIN f
    IN Known(JumpTarget(rule))

Ok(f) == [ok |-> TRUE, fw |-> f]
Err(f) == [ok |-> FALSE, fw |-> f]

\* IPTables::list_chains: the names of the chains of a table.
list_chains(f, table) == {k[2] : k \in {c \in DOMAIN f : c[1] = table}}

\* IPTables::exists (iptables -C): Ok(false) too when the chain is missing.
exists(f, table, chain, rule) ==
    <<table, chain>> \in DOMAIN f /\ rule \in Range(f[<<table, chain>>])

\* IPTables::new_chain (iptables -N).
new_chain(f, table, chain) ==
    IF <<table, chain>> \in DOMAIN f THEN Err(f)
    ELSE Ok([k \in DOMAIN f \cup {<<table, chain>>} |->
                IF k = <<table, chain>> THEN <<>> ELSE f[k]])

\* IPTables::append (iptables -A).
append(f, table, chain, rule) ==
    IF <<table, chain>> \notin DOMAIN f \/ ~TargetOk(f, table, rule) THEN Err(f)
    ELSE Ok([f EXCEPT ![<<table, chain>>] = Append(@, rule)])

\* IPTables::insert (iptables -I chain position).
insert(f, table, chain, rule, position) ==
    IF \/ <<table, chain>> \notin DOMAIN f
       \/ ~TargetOk(f, table, rule)
       \/ position < 1
       \/ position > Len(f[<<table, chain>>]) + 1
    THEN Err(f)
    ELSE Ok([f EXCEPT ![<<table, chain>>] = InsertAt(@, position, rule)])

\* IPTables::delete (iptables -D): removes the first rule with that text.
delete(f, table, chain, rule) ==
    IF ~exists(f, table, chain, rule) THEN Err(f)
    ELSE Ok([f EXCEPT ![<<table, chain>>] = RemoveAt(@, FirstIndex(@, rule))])

\* IPTables::flush_chain (iptables -F).
flush_chain(f, table, chain) ==
    IF <<table, chain>> \notin DOMAIN f THEN Err(f)
    ELSE Ok([f EXCEPT ![<<table, chain>>] = <<>>])

\* A chain is referenced when a rule of its table jumps to it.
Referenced(f, table, chain) ==
    \E k \in DOMAIN f : k[1] = table /\ \E i \in DOMAIN f[k] : JumpTarget(f[k][i]) = chain

\* IPTables::delete_chain (iptables -X): only an empty, unreferenced user chain.
delete_chain(f, table, chain) ==
    IF \/ <<table, chain>> \notin DOMAIN f
       \/ <<table, chain>> \in BuiltinChains
       \/ f[<<table, chain>>] # <<>>
       \/ Referenced(f, table, chain)
    THEN Err(f)
    ELSE Ok([k \in DOMAIN f \ {<<table, chain>>} |-> f[k]])

----------------------------------------------------------------------------
(* Idempotent apply helpers of iptables.rs *)

\* chain_exists: membership in the chain listing.
chain_exists(f, table, chain) == chain \in list_chains(f, table)

\* Mutant: append without asking exists() first.
append_always(f, table, chain, rule) == append(f, table, chain, rule)

\* append_unique: append the rule unless exists() finds it.
append_unique(f, table, chain, rule) ==
    IF exists(f, table, chain, rule) THEN Ok(f)
    ELSE append(f, table, chain, rule)

\* add_chain_unique: create the chain unless it is listed.
add_chain_unique(f, table, new) ==
    IF chain_exists(f, table, new) THEN Ok(f)
    ELSE new_chain(f, table, new)

\* Mutant: the jump rule is appended instead of inserted at position 1.
insert_last_unique(f, table, chain, rule) ==
    IF exists(f, table, chain, rule) THEN Ok(f)
    ELSE append(f, table, chain, rule)

\* setup_network, lines 73-77: insert at position 1 unless exists() finds the rule.
insert_first_unique(f, table, chain, rule) ==
    IF exists(f, table, chain, rule) THEN Ok(f)
    ELSE insert(f, table, chain, rule, 1)

\* Mutant: the chain is flushed and left in place.
remove_chain_and_rules_flush_only(f, table, chain) ==
    IF ~chain_exists(f, table, chain) THEN Ok(f)
    ELSE flush_chain(f, table, chain)

\* remove_chain_and_rules: flush then delete, a no-op when the chain is not listed.
remove_chain_and_rules(f, table, chain) ==
    IF ~chain_exists(f, table, chain) THEN Ok(f)
    ELSE LET Flushed(r) == IF r.ok THEN delete_chain(r.fw, table, chain) ELSE r
         IN Flushed(flush_chain(f, table, chain))

\* remove_if_rule_exists: delete the rule, a no-op when exists() does not find it.
remove_if_rule_exists(f, table, chain, rule) ==
    IF ~exists(f, table, chain, rule) THEN Ok(f)
    ELSE delete(f, table, chain, rule)

\* One helper call of an operation.
Exec(f, c) ==
    CASE c.kind = "add_chain_unique" -> add_chain_unique(f, c.table, c.chain)
      [] c.kind = "append_unique" -> append_unique(f, c.table, c.chain, c.rule)
      [] c.kind = "insert_first_unique" -> insert_first_unique(f, c.table, c.chain, c.rule)
      [] c.kind = "remove_if_rule_exists" -> remove_if_rule_exists(f, c.table, c.chain, c.rule)
      [] c.kind = "remove_chain_and_rules" -> remove_chain_and_rules(f, c.table, c.chain)

\* Run the calls in order; the first Err aborts the rest (the `?` operator).
RECURSIVE Run(_, _)
Run(f, calls) ==
    IF calls = <<>> THEN Ok(f)
    ELSE LET Then(r) == IF r.ok THEN Run(r.fw, Tail(calls)) ELSE r
         IN Then(Exec(f, Head(calls)))

----------------------------------------------------------------------------
(* The four driver operations (impl FirewallDriver for IptablesDriver) *)

\* Result of a driver call: "ok", "err" (an Err returned) or "panic" (index out of bounds).
Res(r) == IF r.ok THEN "ok" ELSE "err"

setup_network(f, n) == Run(f, NetPrograms[n].setup)

teardown_network(f, n, complete_teardown) == Run(f, NetPrograms[n].teardown[complete_teardown])

\* setup_port_forward: sysctl first, then the address checks, then the helper calls.
setup_port_forward(f, sc, c) ==
    LET Apply(sc1) ==
            LET Failed(res) == [res |-> res, fw |-> f, sysctl |-> sc1]
                Done(r) == [res |-> Res(r), fw |-> r.fw, sysctl |-> sc1]
            IN IF ~c.static_ips.some THEN Failed("err")
               ELSE IF c.static_ips.v = <<>> THEN Failed("panic")
               ELSE IF ~c.network.subnets.some THEN Failed("err")
               ELSE IF c.network.subnets.v = <<>> THEN Failed("panic")
               ELSE Done(Run(f, PfPrograms[c].setup))
    IN Apply(IF c.network.network_interface.some
             THEN sc \cup {"net.ipv4.conf." \o c.network.network_interface.v
                              \o ".route_localnet"}
             ELSE sc)

\* teardown_port_forward: the address checks, then the helper calls.
teardown_port_forward(f, c, complete_teardown) ==
    IF ~c.static_ips.some THEN [res |-> "err", fw |-> f]
    ELSE IF ~c.network.subnets.some THEN [res |-> "err", fw |-> f]
    ELSE IF c.network.subnets.v = <<>> THEN [res |-> "panic", fw |-> f]
    ELSE IF c.static_ips.v = <<>> THEN [res |-> "panic", fw |-> f]
    ELSE LET Done(r) == [res |-> Res(r), fw |-> r.fw]
         IN Done(Run(f, PfPrograms[c].teardown[complete_teardown]))

----------------------------------------------------------------------------
(* The config store of state.rs: files below <config_dir>/firewall *)

FIREWALL_DIR == "firewall"
FIREWALL_DRIVER_FILE == "firewall-driver"
NETWORK_CONF_DIR == "networks"
PORT_CONF_DIR == "ports"

\* The config directory the caller passes; it exists.
ConfigDir == "/run/netavark"

\* Path::join / PathBuf::push: an absolute component replaces the path.
Join(path, component) ==
    IF Len(component) > 0 /\ SubSeq(component, 1, 1) = "/" THEN component
    ELSE path \o "/" \o component

RECURSIVE HasSlash(_, _)
HasSlash(str, i) ==
    IF i > Len(str) THEN FALSE
    ELSE IF SubSeq(str, i, i) = "/" THEN TRUE
    ELSE HasSlash(str, i + 1)

\* path is an entry of directory dir: dir, a slash, a name without slash.
EntryOf(dir, path) ==
    /\ Len(path) > Len(dir) + 1
    /\ SubSeq(path, 1, Len(dir) + 1) = dir \o "/"
    /\ ~HasSlash(path, Len(dir) + 2)

firewall_config_dir(config_dir) == Join(config_dir, FIREWALL_DIR)

\* get_file_paths, the paths: with an empty network or container id the two
\* config paths are the directories themselves.
file_paths(config_dir, network_id, container_id) ==
    LET path == firewall_config_dir(config_dir)
        net_dir == Join(path, NETWORK_CONF_DIR)
        port_dir == Join(path, PORT_CONF_DIR)
        keyed == network_id # "" /\ container_id # ""
    IN [create |-> {path, net_dir, port_dir},
        fw_driver_file |-> Join(path, FIREWALL_DRIVER_FILE),
        net_conf_file |-> IF keyed THEN Join(net_dir, network_id) ELSE net_dir,
        port_conf_file |-> IF keyed THEN Join(port_dir, network_id \o "_" \o container_id)
                           ELSE port_dir]

\* (network id, container id) of the attachments: two containers on network abc,
\* one of them on network def too.
Attachments == {<<"abc", "123">>, <<"abc", "456">>, <<"def", "123">>}

\* Two more attachments, of ids that hold the character the port config name is
\* joined with.
AliasAttachments == {<<"a_b", "c">>, <<"a", "b_c">>}

\* The paths of the inputs, and which path is an entry of which, evaluated once.
KnownPaths ==
    [a \in Attachments \cup AliasAttachments \cup {<<"", "">>} |->
        file_paths(ConfigDir, a[1], a[2])]

KnownDirs == {ConfigDir} \cup UNION {KnownPaths[a].create : a \in DOMAIN KnownPaths}

KnownFiles ==
    LET Files(paths) == {paths.fw_driver_file, paths.net_conf_file, paths.port_conf_file}
    IN UNION {Files(KnownPaths[a]) : a \in DOMAIN KnownPaths}

KnownEntries == [dir \in KnownDirs |-> {path \in KnownFiles : EntryOf(dir, path)}]

IsEntryOf(dir, path) == path \in KnownEntries[dir]

\* get_file_paths: the three paths; with create_dirs the directories are made.
\* Every caller passes ConfigDir, so the paths are those of KnownPaths.
get_file_paths(ds, config_dir, network_id, container_id, create_dirs) ==
    LET Created(paths) ==
            [dirs |-> IF create_dirs THEN ds \cup paths.create ELSE ds,
             fw_driver_file |-> paths.fw_driver_file,
             net_conf_file |-> paths.net_conf_file,
             port_conf_file |-> paths.port_conf_file]
    IN Created(KnownPaths[<<network_id, container_id>>])

\* The directory a path lies in exists (the path has the form dir/entry).
ParentExists(ds, path) == path \in ds \/ \E d \in ds \cup {ConfigDir} : IsEntryOf(d, path)

\* File::create + write: creates or truncates; fails on a directory or a missing parent.
file_create(ds, fs, path, content) ==
    IF path \in ds \/ ~ParentExists(ds, path) THEN [ok |-> FALSE, files |-> fs]
    ELSE [ok |-> TRUE,
          files |-> [q \in DOMAIN fs \cup {path} |-> IF q = path THEN content ELSE fs[q]]]

\* Mutant: NotFound is an error like any other.
remove_file_enoent_fails(ds, fs, path) ==
    IF path \in ds \/ path \notin DOMAIN fs THEN [ok |-> FALSE, files |-> fs]
    ELSE [ok |-> TRUE, files |-> [q \in DOMAIN fs \ {path} |-> fs[q]]]

\* remove_file_ignore_enoent: NotFound is no error; unlinking a directory is one.
remove_file_ignore_enoent(ds, fs, path) ==
    IF path \in ds THEN [ok |-> FALSE, files |-> fs]
    ELSE [ok |-> TRUE, files |-> [q \in DOMAIN fs \ {path} |-> fs[q]]]

(* serde_json of SetupNetwork and PortForwardConfig, in the field order of  *)
(* the test's literals.                                                    *)

JsonStr(str) == "\"" \o str \o "\""

JsonOptStr(o) == IF o.some THEN JsonStr(o.v) ELSE "null"

RECURSIVE JsonItems(_)
JsonItems(strs) ==
    IF strs = <<>> THEN ""
    ELSE IF Len(strs) = 1 THEN JsonStr(strs[1])
    ELSE JsonStr(strs[1]) \o "," \o JsonItems(Tail(strs))

JsonOptList(o) == IF o.some THEN "[" \o JsonItems(o.v) \o "]" ELSE "null"

\* A port mapping, by the two fields the driver reads.
JsonMapping(pm) ==
    "{\"container_port\":" \o ToString(pm.container_port)
        \o ",\"host_port\":" \o ToString(pm.host_port) \o "}"

RECURSIVE JsonMappings(_)
JsonMappings(pms) ==
    IF pms = <<>> THEN ""
    ELSE IF Len(pms) = 1 THEN JsonMapping(pms[1])
    ELSE JsonMapping(pms[1]) \o "," \o JsonMappings(Tail(pms))

JsonOptMappings(o) == IF o.some THEN "[" \o JsonMappings(o.v) \o "]" ELSE "null"

net_conf_json(c) ==
    "{\"subnets\":" \o JsonOptList(c.subnets)
        \o ",\"bridge_name\":" \o JsonStr(c.bridge_name)
        \o ",\"network_hash_name\":" \o JsonStr(c.network_hash_name)
        \o ",\"isolation\":" \o JsonStr(c.isolation)
        \o ",\"dns_port\":" \o ToString(c.dns_port) \o "}"

port_conf_json(c) ==
    "{\"container_id\":" \o JsonStr(c.container_id)
        \o ",\"port_mappings\":" \o JsonOptMappings(c.port_mappings)
        \o ",\"network_name\":" \o JsonStr(c.network_name)
        \o ",\"network_hash_name\":" \o JsonStr(c.network_hash_name)
        \o ",\"container_ip_v4\":" \o JsonOptStr(c.container_ip_v4)
        \o ",\"subnet_v4\":" \o JsonOptStr(c.subnet_v4)
        \o ",\"container_ip_v6\":" \o JsonOptStr(c.container_ip_v6)
        \o ",\"subnet_v6\":" \o JsonOptStr(c.subnet_v6)
        \o ",\"dns_port\":" \o ToString(c.dns_port)
        \o ",\"dns_server_ips\":" \o JsonOptList(Some(c.dns_server_ips)) \o "}"

(* Inputs of the store calls *)

SetupNetworkConf(subnets, bridge_name, network_hash_name, dns_port) ==
    [subnets |-> subnets, bridge_name |-> bridge_name,
     network_hash_name |-> network_hash_name, isolation |-> "Never", dns_port |-> dns_port]

PortForwardConf(container_id, network_name, network_hash_name, container_ip_v4, subnet_v4) ==
    [container_id |-> container_id, port_mappings |-> None, network_name |-> network_name,
     network_hash_name |-> network_hash_name, container_ip_v4 |-> container_ip_v4,
     subnet_v4 |-> subnet_v4, container_ip_v6 |-> None, subnet_v6 |-> None,
     dns_port |-> 53, dns_server_ips |-> <<>>]

\* The values of the test, and a second content for each file.
TestNetConfs == {SetupNetworkConf(Some(<<"10.0.0.0/24">>), "bridge", "hash", 53),
                 SetupNetworkConf(Some(<<"10.0.0.0/24", "10.2.0.0/24">>), "bridge", "hash", 1153)}

TestPortConfs == {PortForwardConf("123", "name", "hash", Some("10.0.0.2"), Some("10.0.0.0/24")),
                  PortForwardConf("123", "name", "hash", Some("10.0.0.9"), None)}

\* The descriptors the caller persists after a setup: those it passed to the driver.
StoredNet(n) ==
    SetupNetworkConf(n.net.subnets,
                     IF n.net.network_interface.some THEN n.net.network_interface.v ELSE "",
                     n.network_hash_name, 53)

StoredPort(c) ==
    [PortForwardConf(c.container_id, c.network_name, c.id_network_hash,
                     Some(c.static_ips.v[1]), Some(c.network.subnets.v[1]))
        EXCEPT !.port_mappings = Some(c.port_mappings)]

\* The network of a port-forward call.
NetOf(c) == CHOOSE n \in NetCalls : n.network_hash_name = c.id_network_hash

\* (network id, container id) under which the caller stores a port-forward call.
AttachmentOf(c) ==
    <<IF c.id_network_hash = "hash" THEN "abc" ELSE "def", c.container_id>>

NetConfs == TestNetConfs \cup {StoredNet(NetOf(c)) : c \in GoodPfCalls}

PortConfs == TestPortConfs \cup {StoredPort(c) : c \in GoodPfCalls}

Drivers == {"iptables", "firewalld"}

NetJson == [c \in NetConfs |-> net_conf_json(c)]
PortJson == [c \in PortConfs |-> port_conf_json(c)]

\* serde_json::from_str: the value whose JSON text the content is, if any.
from_str(Confs, Json, content) ==
    IF \E c \in Confs : Json[c] = content
    THEN Some(CHOOSE c \in Confs : Json[c] = content)
    ELSE None

(* The three store operations *)

\* Mutant: the network config is written with File::create, like the port config.
write_fw_config_net_overwritten(ds, fs, config_dir, network_id, container_id, fw_driver, net_conf, port_conf) ==
    LET Write(paths) ==
            LET Port(q) == [ok |-> q.ok, dirs |-> paths.dirs, files |-> q.files]
                Net(n) ==
                    IF ~n.ok THEN [ok |-> FALSE, dirs |-> paths.dirs, files |-> n.files]
                    ELSE Port(file_create(paths.dirs, n.files, paths.port_conf_file,
                                          PortJson[port_conf]))
                Driver(d) ==
                    IF ~d.ok THEN [ok |-> FALSE, dirs |-> paths.dirs, files |-> d.files]
                    ELSE Net(file_create(paths.dirs, d.files, paths.net_conf_file,
                                         NetJson[net_conf]))
            IN Driver(file_create(paths.dirs, fs, paths.fw_driver_file, fw_driver))
    IN Write(get_file_paths(ds, config_dir, network_id, container_id, TRUE))

\* Mutant: the port config is written with create_new, like the network config.
write_fw_config_port_kept(ds, fs, config_dir, network_id, container_id, fw_driver, net_conf, port_conf) ==
    LET Write(paths) ==
            LET Port(q) == [ok |-> q.ok, dirs |-> paths.dirs, files |-> q.files]
                Net(n) ==
                    IF ~n.ok THEN [ok |-> FALSE, dirs |-> paths.dirs, files |-> n.files]
                    ELSE IF paths.port_conf_file \in DOMAIN n.files THEN Port(n)
                    ELSE Port(file_create(paths.dirs, n.files, paths.port_conf_file,
                                          PortJson[port_conf]))
                Driver(d) ==
                    IF ~d.ok THEN [ok |-> FALSE, dirs |-> paths.dirs, files |-> d.files]
                    ELSE IF paths.net_conf_file \in DOMAIN d.files THEN Net(d)
                    ELSE Net(file_create(paths.dirs, d.files, paths.net_conf_file,
                                         NetJson[net_conf]))
            IN Driver(file_create(paths.dirs, fs, paths.fw_driver_file, fw_driver))
    IN Write(get_file_paths(ds, config_dir, network_id, container_id, TRUE))

\* write_fw_config: driver file overwritten, network config created only when
\* absent (create_new), port config overwritten.
write_fw_config(ds, fs, config_dir, network_id, container_id, fw_driver, net_conf, port_conf) ==
    LET Write(paths) ==
            LET Port(q) == [ok |-> q.ok, dirs |-> paths.dirs, files |-> q.files]
                Net(n) ==
                    IF ~n.ok THEN [ok |-> FALSE, dirs |-> paths.dirs, files |-> n.files]
                    ELSE Port(file_create(paths.dirs, n.files, paths.port_conf_file,
                                          PortJson[port_conf]))
                Driver(d) ==
                    IF ~d.ok THEN [ok |-> FALSE, dirs |-> paths.dirs, files |-> d.files]
                    ELSE IF \/ paths.net_conf_file \in DOMAIN d.files
                            \/ paths.net_conf_file \in paths.dirs
                    THEN Net(d)
                    ELSE Net(file_create(paths.dirs, d.files, paths.net_conf_file,
                                         NetJson[net_conf]))
            IN Driver(file_create(paths.dirs, fs, paths.fw_driver_file, fw_driver))
    IN Write(get_file_paths(ds, config_dir, network_id, container_id, TRUE))

\* Mutant: the network config is removed whatever complete_teardown says.
remove_fw_config_always_complete(ds, fs, config_dir, network_id, container_id, complete_teardown) ==
    LET Remove(paths) ==
            LET Port(q) ==
                    IF ~q.ok THEN [ok |-> FALSE, files |-> q.files]
                    ELSE remove_file_ignore_enoent(ds, q.files, paths.net_conf_file)
            IN Port(remove_file_ignore_enoent(ds, fs, paths.port_conf_file))
    IN Remove(get_file_paths(ds, config_dir, network_id, container_id, FALSE))

\* Mutant: the network config is left in place, also with complete_teardown.
remove_fw_config_net_kept(ds, fs, config_dir, network_id, container_id, complete_teardown) ==
    LET Remove(paths) == remove_file_ignore_enoent(ds, fs, paths.port_conf_file)
    IN Remove(get_file_paths(ds, config_dir, network_id, container_id, FALSE))

\* remove_fw_config: the port config, and with complete_teardown the network config.
remove_fw_config(ds, fs, config_dir, network_id, container_id, complete_teardown) ==
    LET Remove(paths) ==
            LET Port(q) ==
                    IF ~q.ok THEN [ok |-> FALSE, files |-> q.files]
                    ELSE IF complete_teardown
                    THEN remove_file_ignore_enoent(ds, q.files, paths.net_conf_file)
                    ELSE [ok |-> TRUE, files |-> q.files]
            IN Port(remove_file_ignore_enoent(ds, fs, paths.port_conf_file))
    IN Remove(get_file_paths(ds, config_dir, network_id, container_id, FALSE))

\* The orders in which fs::read_dir may list the entries of a directory.
Listings(ds, fs, dir) ==
    LET entries == {q \in DOMAIN fs : IsEntryOf(dir, q)}
    IN {l \in [1..Cardinality(entries) -> entries] :
           \A i, j \in DOMAIN l : i # j => l[i] # l[j]}

\* Mutant: the last entry of the listing is left out.
read_dir_conf_last_skipped(ds, fs, dir, listing, Confs, Json) ==
    IF dir \notin ds THEN [ok |-> FALSE, confs |-> <<>>]
    ELSE [ok |-> TRUE,
          confs |-> [i \in 1..(Len(listing) - 1) |->
                        (CHOOSE c \in Confs : Json[c] = fs[listing[i]])]]

\* read_dir_conf: every entry of the directory, deserialized, in listing order.
read_dir_conf(ds, fs, dir, listing, Confs, Json) ==
    IF dir \notin ds THEN [ok |-> FALSE, confs |-> <<>>]
    ELSE LET Collect(parsed) ==
                 IF \E i \in DOMAIN parsed : ~parsed[i].some THEN [ok |-> FALSE, confs |-> <<>>]
                 ELSE [ok |-> TRUE, confs |-> [i \in DOMAIN parsed |-> parsed[i].v]]
         IN Collect([i \in DOMAIN listing |-> from_str(Confs, Json, fs[listing[i]])])

NoConfig == [driver |-> "", net_confs |-> <<>>, port_confs |-> <<>>]

\* read_fw_config: the driver name and the configs of both directories.
read_fw_config(ds, fs, config_dir, net_listing, port_listing) ==
    LET Read(paths) ==
            LET Configs(n, q) ==
                    IF paths.fw_driver_file \notin DOMAIN fs \/ ~n.ok \/ ~q.ok
                    THEN [ok |-> FALSE, val |-> NoConfig]
                    ELSE [ok |-> TRUE,
                          val |-> [driver |-> fs[paths.fw_driver_file],
                                   net_confs |-> n.confs, port_confs |-> q.confs]]
            IN Configs(read_dir_conf(ds, fs, paths.net_conf_file, net_listing, NetConfs, NetJson),
                       read_dir_conf(ds, fs, paths.port_conf_file, port_listing, PortConfs,
                                     PortJson))
    IN Read(get_file_paths(ds, config_dir, "", "", FALSE))

----------------------------------------------------------------------------
(* State machine of the driver *)

NoCall == [op |-> "none", arg |-> NetNone, complete |-> FALSE, res |-> "ok", repeat |-> FALSE]

\* The record of a call; repeat says the call before it was the same call and succeeded.
Record(op, arg, complete, res) ==
    [op |-> op, arg |-> arg, complete |-> complete, res |-> res,
     repeat |-> (last.op = op /\ last.arg = arg /\ last.complete = complete
                 /\ last.res = "ok")]

\* The record of a store call; pre holds the content of the two files the call
\* names as they were before it.
SRecord(op, a, complete, fw_driver, net_conf, port_conf, ok, val) ==
    LET Pre(path) == IF path \in DOMAIN files THEN Some(files[path]) ELSE None
        Before(paths) == [net |-> Pre(paths.net_conf_file), port |-> Pre(paths.port_conf_file)]
    IN [op |-> op, network_id |-> a[1], container_id |-> a[2], complete |-> complete,
        fw_driver |-> fw_driver, net_conf |-> net_conf, port_conf |-> port_conf,
        ok |-> ok, val |-> val,
        repeat |-> (slast.op = op /\ slast.network_id = a[1] /\ slast.container_id = a[2]
                    /\ slast.complete = complete /\ slast.ok),
        pre |-> Before(get_file_paths(dirs, ConfigDir, a[1], a[2], FALSE))]

NoFunction == [x \in {} |-> x]

StoreInit ==
    /\ dirs = {}
    /\ files = NoFunction
    /\ slast = [op |-> "none", network_id |-> "", container_id |-> "", complete |-> FALSE,
                fw_driver |-> "", net_conf |-> None, port_conf |-> None, ok |-> TRUE,
                val |-> NoConfig, repeat |-> FALSE, pre |-> [net |-> None, port |-> None]]
    /\ written = [driver |-> None, nets |-> NoFunction, ports |-> NoFunction]

Init ==
    /\ \E admin \in BOOLEAN : fw = HostFirewall(admin)
    /\ sysctl = {}
    /\ last = NoCall
    /\ netsEver = {}
    /\ pfEver = {}
    /\ pfActive = {}
    /\ nops = 0
    /\ procs = <<>>
    /\ StoreInit

SetupNetwork(n) ==
    /\ nops < MaxOps
    /\ LET Done(r) ==
               /\ fw' = r.fw
               /\ last' = Record("setup_network", n, FALSE, Res(r))
               /\ netsEver' = IF r.ok THEN netsEver \cup {n} ELSE netsEver
       IN Done(setup_network(fw, n))
    /\ nops' = nops + 1
    /\ UNCHANGED <<sysctl, pfEver, pfActive, dirs, files, slast, written, procs>>

TeardownNetwork(n, complete_teardown) ==
    /\ nops < MaxOps
    /\ LET Done(r) ==
               /\ fw' = r.fw
               /\ last' = Record("teardown_network", n, complete_teardown, Res(r))
       IN Done(teardown_network(fw, n, complete_teardown))
    /\ nops' = nops + 1
    /\ UNCHANGED <<sysctl, netsEver, pfEver, pfActive, dirs, files, slast, written, procs>>

SetupPortForward(c) ==
    /\ nops < MaxOps
    /\ LET Done(r) ==
               /\ fw' = r.fw
               /\ sysctl' = r.sysctl
               /\ last' = Record("setup_port_forward", c, FALSE, r.res)
               /\ pfEver' = IF r.res = "ok" THEN pfEver \cup {c} ELSE pfEver
               /\ pfActive' = IF r.res = "ok" THEN pfActive \cup {c} ELSE pfActive
       IN Done(setup_port_forward(fw, sysctl, c))
    /\ nops' = nops + 1
    /\ UNCHANGED <<netsEver, dirs, files, slast, written, procs>>

TeardownPortForward(c, complete_teardown) ==
    /\ nops < MaxOps
    /\ LET Done(r) ==
               /\ fw' = r.fw
               /\ last' = Record("teardown_port_forward", c, complete_teardown, r.res)
               /\ pfActive' = IF r.res = "ok" THEN pfActive \ {c} ELSE pfActive
       IN Done(teardown_port_forward(fw, c, complete_teardown))
    /\ nops' = nops + 1
    /\ UNCHANGED <<sysctl, netsEver, pfEver, dirs, files, slast, written, procs>>

\* What a successful write is meant to store: the driver name, the network
\* config unless the network has one, the port config of the attachment.
WrittenAfterWrite(w, a, fw_driver, net_conf, port_conf) ==
    [driver |-> Some(fw_driver),
     nets |-> IF a[1] \in DOMAIN w.nets THEN w.nets
              ELSE [k \in DOMAIN w.nets \cup {a[1]} |->
                       IF k = a[1] THEN net_conf ELSE w.nets[k]],
     ports |-> [k \in DOMAIN w.ports \cup {a} |-> IF k = a THEN port_conf ELSE w.ports[k]]]

\* What a successful remove is meant to leave stored.
WrittenAfterRemove(w, a, complete_teardown) ==
    [driver |-> w.driver,
     nets |-> IF complete_teardown THEN [k \in DOMAIN w.nets \ {a[1]} |-> w.nets[k]]
              ELSE w.nets,
     ports |-> [k \in DOMAIN w.ports \ {a} |-> w.ports[k]]]

WriteFwConfig(a, fw_driver, net_conf, port_conf) ==
    /\ nops < MaxOps
    /\ LET Done(r) ==
               /\ dirs' = r.dirs
               /\ files' = r.files
               /\ slast' = SRecord("write_fw_config", a, FALSE, fw_driver, Some(net_conf),
                                   Some(port_conf), r.ok, NoConfig)
               /\ written' = IF r.ok
                             THEN WrittenAfterWrite(written, a, fw_driver, net_conf, port_conf)
                             ELSE written
       IN Done(write_fw_config(dirs, files, ConfigDir, a[1], a[2], fw_driver, net_conf,
                               port_conf))
    /\ nops' = nops + 1
    /\ UNCHANGED fwvars

RemoveFwConfig(a, complete_teardown) ==
    /\ nops < MaxOps
    /\ LET Done(r) ==
               /\ files' = r.files
               /\ slast' = SRecord("remove_fw_config", a, complete_teardown, "", None, None,
                                   r.ok, NoConfig)
               /\ written' = IF r.ok THEN WrittenAfterRemove(written, a, complete_teardown)
                             ELSE written
       IN Done(remove_fw_config(dirs, files, ConfigDir, a[1], a[2], complete_teardown))
    /\ nops' = nops + 1
    /\ UNCHANGED <<dirs, fwvars>>

ReadFwConfig ==
    /\ nops < MaxOps
    /\ LET Done(r) == slast' = SRecord("read_fw_config", <<"", "">>, FALSE, "", None, None,
                                       r.ok, r.val)
           Read(paths) ==
               \E net_listing \in Listings(dirs, files, paths.net_conf_file),
                  port_listing \in Listings(dirs, files, paths.port_conf_file) :
                  Done(read_fw_config(dirs, files, ConfigDir, net_listing, port_listing))
       IN Read(get_file_paths(dirs, ConfigDir, "", "", FALSE))
    /\ nops' = nops + 1
    /\ UNCHANGED <<dirs, files, written, fwvars>>

StoreNext ==
    \/ \E a \in Attachments, fw_driver \in Drivers, net_conf \in TestNetConfs,
          port_conf \in TestPortConfs : WriteFwConfig(a, fw_driver, net_conf, port_conf)
    \/ \E a \in Attachments, complete_teardown \in BOOLEAN :
          RemoveFwConfig(a, complete_teardown)
    \/ ReadFwConfig

StoreSpec == Init /\ [][StoreNext]_vars

\* The store written and cleared for attachments of any ids.
KeyAttachments == AliasAttachments \cup {<<"abc", "123">>}

KeyNext ==
    \/ \E a \in KeyAttachments, net_conf \in TestNetConfs, port_conf \in TestPortConfs :
          WriteFwConfig(a, "iptables", net_conf, port_conf)
    \/ \E a \in KeyAttachments, complete_teardown \in BOOLEAN :
          RemoveFwConfig(a, complete_teardown)

KeySpec == Init /\ [][KeyNext]_vars

\* The last store call was a successful complete removal for the network of a.
AfterRemoval(a) ==
    slast.op = "remove_fw_config" /\ slast.complete /\ slast.ok /\ slast.network_id = a[1]

\* The record of a write that follows a complete removal: removed holds the
\* network config the removal found.
WithRemoved(r, removed) ==
    [f \in DOMAIN r \cup {"removed"} |-> IF f = "removed" THEN removed ELSE r[f]]

\* write_fw_config as the next store call after a complete removal for its network.
WriteFwConfigAfterRemoval(a, fw_driver, net_conf, port_conf) ==
    /\ nops < MaxOps
    /\ AfterRemoval(a)
    /\ LET Done(r) ==
               /\ dirs' = r.dirs
               /\ files' = r.files
               /\ slast' = WithRemoved(SRecord("write_fw_config_after_removal", a, FALSE,
                                               fw_driver, Some(net_conf), Some(port_conf),
                                               r.ok, NoConfig),
                                       slast.pre.net)
               /\ written' = IF r.ok
                             THEN WrittenAfterWrite(written, a, fw_driver, net_conf, port_conf)
                             ELSE written
       IN Done(write_fw_config(dirs, files, ConfigDir, a[1], a[2], fw_driver, net_conf,
                               port_conf))
    /\ nops' = nops + 1
    /\ UNCHANGED fwvars

LifetimeNext ==
    \/ \E a \in Attachments, net_conf \in TestNetConfs, port_conf \in TestPortConfs :
          ~AfterRemoval(a) /\ WriteFwConfig(a, "iptables", net_conf, port_conf)
    \/ \E a \in Attachments, net_conf \in TestNetConfs, port_conf \in TestPortConfs :
          WriteFwConfigAfterRemoval(a, "iptables", net_conf, port_conf)
    \/ \E a \in Attachments, complete_teardown \in BOOLEAN :
          RemoveFwConfig(a, complete_teardown)

LifetimeSpec == Init /\ [][LifetimeNext]_vars

Next ==
    \/ \E n \in NetCalls : SetupNetwork(n)
    \/ \E n \in NetCalls, complete_teardown \in BOOLEAN : TeardownNetwork(n, complete_teardown)
    \/ \E c \in PfCalls : SetupPortForward(c)
    \/ \E c \in PfCalls, complete_teardown \in BOOLEAN : TeardownPortForward(c, complete_teardown)

Spec == Init /\ [][Next]_vars

----------------------------------------------------------------------------
(* Backend failures: a setup call aborted at one of its backend calls, and  *)
(* the caller's retry with the same arguments.                              *)

\* The call list aborted at helper call k: the backend returns Err in that helper
\* (at its query, or at the mutation the query asked for) and `?` returns it, so
\* the calls before k are applied and nothing else is.
AbortAt(f, calls, k) ==
    LET Aborted(r) == Err(r.fw)
    IN Aborted(Run(f, SubSeq(calls, 1, k - 1)))

\* The record of an aborted or retried call; pre is the firewall before the
\* aborted call.
RetryRecord(op, arg, res, pre) ==
    [op |-> op, arg |-> arg, complete |-> FALSE, res |-> res, repeat |-> FALSE, pre |-> pre]

SetupNetworkAborted(n, k) ==
    /\ nops < MaxOps
    /\ LET Done(r) ==
               /\ fw' = r.fw
               /\ last' = RetryRecord("setup_network_aborted", n, Res(r), fw)
       IN Done(AbortAt(fw, NetPrograms[n].setup, k))
    /\ nops' = nops + 1
    /\ UNCHANGED <<sysctl, netsEver, pfEver, pfActive, dirs, files, slast, written, procs>>

SetupNetworkRetried(n) ==
    /\ nops < MaxOps
    /\ last.op = "setup_network_aborted" /\ last.arg = n
    /\ LET Done(r) ==
               /\ fw' = r.fw
               /\ last' = RetryRecord("setup_network_retried", n, Res(r), last.pre)
               /\ netsEver' = IF r.ok THEN netsEver \cup {n} ELSE netsEver
       IN Done(setup_network(fw, n))
    /\ nops' = nops + 1
    /\ UNCHANGED <<sysctl, pfEver, pfActive, dirs, files, slast, written, procs>>

SetupPortForwardAborted(c, k) ==
    /\ nops < MaxOps
    /\ LET Done(r) ==
               /\ fw' = r.fw
               /\ last' = RetryRecord("setup_port_forward_aborted", c, Res(r), fw)
       IN Done(AbortAt(fw, PfPrograms[c].setup, k))
    /\ sysctl' = setup_port_forward(fw, sysctl, c).sysctl
    /\ nops' = nops + 1
    /\ UNCHANGED <<netsEver, pfEver, pfActive, dirs, files, slast, written, procs>>

SetupPortForwardRetried(c) ==
    /\ nops < MaxOps
    /\ last.op = "setup_port_forward_aborted" /\ last.arg = c
    /\ LET Done(r) ==
               /\ fw' = r.fw
               /\ sysctl' = r.sysctl
               /\ last' = RetryRecord("setup_port_forward_retried", c, r.res, last.pre)
               /\ pfEver' = IF r.res = "ok" THEN pfEver \cup {c} ELSE pfEver
               /\ pfActive' = IF r.res = "ok" THEN pfActive \cup {c} ELSE pfActive
       IN Done(setup_port_forward(fw, sysctl, c))
    /\ nops' = nops + 1
    /\ UNCHANGED <<netsEver, dirs, files, slast, written, procs>>

\* A call is retried right after it was aborted, so an aborted call leaves room
\* for its retry and nothing else runs between the two.
Aborted == last.op \in {"setup_network_aborted", "setup_port_forward_aborted"}

RetryNext ==
    \/ ~Aborted /\ \E n \in NetCalls : SetupNetwork(n)
    \/ ~Aborted /\ \E c \in GoodPfCalls : SetupPortForward(c)
    \/ ~Aborted /\ \E c \in GoodPfCalls, complete_teardown \in BOOLEAN :
          TeardownPortForward(c, complete_teardown)
    \/ ~Aborted /\ nops + 1 < MaxOps
          /\ \E n \in NetCalls : \E k \in DOMAIN NetPrograms[n].setup :
                SetupNetworkAborted(n, k)
    \/ \E n \in NetCalls : SetupNetworkRetried(n)
    \/ ~Aborted /\ nops + 1 < MaxOps
          /\ \E c \in GoodPfCalls : \E k \in DOMAIN PfPrograms[c].setup :
                SetupPortForwardAborted(c, k)
    \/ \E c \in GoodPfCalls : SetupPortForwardRetried(c)

RetrySpec == Init /\ [][RetryNext]_vars

----------------------------------------------------------------------------
(* Port forwards set up and torn down, not completely, on networks that are *)
(* set up.                                                                  *)

PortInit ==
    /\ \E admin \in BOOLEAN :
          fw = setup_network(setup_network(HostFirewall(admin), NetA).fw, NetB).fw
    /\ sysctl = {}
    /\ last = NoCall
    /\ netsEver = {NetA, NetB}
    /\ pfEver = {}
    /\ pfActive = {}
    /\ nops = 0
    /\ procs = <<>>
    /\ StoreInit

PortNext ==
    \/ \E c \in GoodPfCalls : SetupPortForward(c)
    \/ \E c \in pfActive : TeardownPortForward(c, FALSE)

PortSpec == PortInit /\ [][PortNext]_vars

----------------------------------------------------------------------------
(* Two processes, each running one driver operation or one helper, with    *)
(* their backend calls interleaved.  Every backend call is one step: the   *)
(* query of a helper (exists / list_chains) and the mutation it then makes *)
(* (new_chain / append / insert / delete / flush_chain / delete_chain) are *)
(* separate calls, and the other process may run between them.             *)

Procs == {1, 2}

\* The invocation of one process: its helper calls, the one it is at (pc), the
\* backend call that comes next (phase), its result, and the firewall both
\* processes started on.
Job(op, arg, calls, start) ==
    [op |-> op, arg |-> arg, calls |-> calls, pc |-> 1, phase |-> "query",
     res |-> "running", start |-> start]

SetupNetworkJob(n, start) == Job("setup_network", n, NetPrograms[n].setup, start)

SetupPortForwardJob(c, start) == Job("setup_port_forward", c, PfPrograms[c].setup, start)

TeardownPortForwardJob(c, start) ==
    Job("teardown_port_forward", c, PfPrograms[c].teardown[TRUE], start)

\* One helper call made on its own.
HelperJob(call, start) == Job(call.kind, call, <<call>>, start)

\* Hosts the concurrent invocations start on.
BothNetworks == setup_network(setup_network(HostFirewall(FALSE), NetA).fw, NetB).fw
WithContainer == setup_port_forward(BothNetworks, {}, PfA1).fw
ContainerGone == teardown_port_forward(WithContainer, PfA1, FALSE).fw

\* The pairs of invocations: setups for different networks or containers, the
\* teardown of one container made twice, one removal helper made twice.
ConcPairs ==
    {<<SetupNetworkJob(NetA, HostFirewall(admin)), SetupNetworkJob(NetB, HostFirewall(admin))>> :
        admin \in BOOLEAN}
    \cup {<<SetupPortForwardJob(PfA1, BothNetworks), SetupPortForwardJob(c, BothNetworks)>> :
            c \in {PfA2, PfB1}}
    \cup {<<TeardownPortForwardJob(PfA1, WithContainer),
            TeardownPortForwardJob(PfA1, WithContainer)>>}
    \cup {<<HelperJob(PfPrograms[PfA1].teardown[FALSE][1], WithContainer),
            HelperJob(PfPrograms[PfA1].teardown[FALSE][1], WithContainer)>>}
    \cup {<<HelperJob(Call("remove_chain_and_rules", NAT,
                           network_dn_chain_name(PfA1.id_network_hash), ""), ContainerGone),
            HelperJob(Call("remove_chain_and_rules", NAT,
                           network_dn_chain_name(PfA1.id_network_hash), ""), ContainerGone)>>}

ConcInit ==
    /\ \E pair \in ConcPairs : procs = pair /\ fw = pair[1].start
    /\ sysctl = {}
    /\ last = NoCall
    /\ netsEver = {}
    /\ pfEver = {}
    /\ pfActive = {}
    /\ nops = 0
    /\ StoreInit

\* The answer of a helper's query that makes it call the backend again: the
\* add helpers when the chain or rule is not found, the remove helpers when it is.
Wanted(f, c) ==
    CASE c.kind = "add_chain_unique" -> ~chain_exists(f, c.table, c.chain)
      [] c.kind = "append_unique" -> ~exists(f, c.table, c.chain, c.rule)
      [] c.kind = "insert_first_unique" -> ~exists(f, c.table, c.chain, c.rule)
      [] c.kind = "remove_if_rule_exists" -> exists(f, c.table, c.chain, c.rule)
      [] c.kind = "remove_chain_and_rules" -> chain_exists(f, c.table, c.chain)

\* The backend call a helper makes after its query.
Mutation(f, c) ==
    CASE c.kind = "add_chain_unique" -> new_chain(f, c.table, c.chain)
      [] c.kind = "append_unique" -> append(f, c.table, c.chain, c.rule)
      [] c.kind = "insert_first_unique" -> insert(f, c.table, c.chain, c.rule, 1)
      [] c.kind = "remove_if_rule_exists" -> delete(f, c.table, c.chain, c.rule)
      [] c.kind = "remove_chain_and_rules" -> flush_chain(f, c.table, c.chain)

\* The helper call has returned Ok: on to the next one, or Ok(()) at the end.
Returned(pr) ==
    IF pr.pc = Len(pr.calls)
    THEN [pr EXCEPT !.pc = pr.pc + 1, !.phase = "done", !.res = "ok"]
    ELSE [pr EXCEPT !.pc = pr.pc + 1, !.phase = "query"]

\* The backend returned Err: `?` ends the invocation.
Failed(pr) == [pr EXCEPT !.phase = "done", !.res = "err"]

\* exists / list_chains of the helper call the process is at.
ProcQuery(p) ==
    /\ procs[p].phase = "query"
    /\ procs' = [procs EXCEPT ![p] =
                    IF Wanted(fw, @.calls[@.pc]) THEN [@ EXCEPT !.phase = "mutate"]
                    ELSE Returned(@)]
    /\ UNCHANGED <<fw, sysctl, last, netsEver, pfEver, pfActive, nops, dirs, files, slast, written>>

\* new_chain / append / insert / delete / flush_chain, as the query decided.
ProcMutate(p) ==
    /\ procs[p].phase = "mutate"
    /\ LET Done(r) ==
               /\ fw' = r.fw
               /\ procs' = [procs EXCEPT ![p] =
                               IF ~r.ok THEN Failed(@)
                               ELSE IF @.calls[@.pc].kind = "remove_chain_and_rules"
                                    THEN [@ EXCEPT !.phase = "delete_chain"]
                               ELSE Returned(@)]
       IN Done(Mutation(fw, procs[p].calls[procs[p].pc]))
    /\ UNCHANGED <<sysctl, last, netsEver, pfEver, pfActive, nops, dirs, files, slast, written>>

\* delete_chain, the last backend call of remove_chain_and_rules.
ProcDeleteChain(p) ==
    /\ procs[p].phase = "delete_chain"
    /\ LET Done(r) ==
               /\ fw' = r.fw
               /\ procs' = [procs EXCEPT ![p] = IF r.ok THEN Returned(@) ELSE Failed(@)]
       IN Done(delete_chain(fw, procs[p].calls[procs[p].pc].table,
                            procs[p].calls[procs[p].pc].chain))
    /\ UNCHANGED <<sysctl, last, netsEver, pfEver, pfActive, nops, dirs, files, slast, written>>

ConcNext ==
    \/ \E p \in Procs : ProcQuery(p)
    \/ \E p \in Procs : ProcMutate(p)
    \/ \E p \in Procs : ProcDeleteChain(p)

ConcSpec == ConcInit /\ [][ConcNext]_vars

----------------------------------------------------------------------------
(* Two processes in write_fw_config at once (two containers attached to    *)
(* one network).  Every file-system call is one step; serde_json writes a  *)
(* config in more than one write call, modelled as two halves.             *)

\* n filler bytes: what a write beyond the end of a file leaves in the gap.
RECURSIVE Pad(_)
Pad(n) == IF n = 0 THEN "" ELSE "0" \o Pad(n - 1)

\* write(2) on an open file: the bytes go to the offset of the descriptor.
write_at(fs, path, off, bytes) ==
    LET Put(old) == SubSeq(old, 1, off) \o bytes \o SubSeq(old, off + Len(bytes) + 1, Len(old))
        Padded(old) == IF Len(old) < off THEN Put(old \o Pad(off - Len(old))) ELSE Put(old)
    IN [q \in DOMAIN fs \cup {path} |->
           IF q # path THEN fs[q] ELSE IF path \in DOMAIN fs THEN Padded(fs[path]) ELSE bytes]

\* Mutant: the network config is opened with File::create, which truncates.
open_create_new_truncating(ds, fs, path) ==
    IF path \in ds \/ ~ParentExists(ds, path) THEN [res |-> "err", files |-> fs]
    ELSE [res |-> "opened", files |-> file_create(ds, fs, path, "").files]

\* OpenOptions::new().write(true).create_new(true).open: creates the file or
\* fails with AlreadyExists, in one step of the file system.
open_create_new(ds, fs, path) ==
    IF path \in ds \/ path \in DOMAIN fs THEN [res |-> "exists", files |-> fs]
    ELSE IF ~ParentExists(ds, path) THEN [res |-> "err", files |-> fs]
    ELSE [res |-> "opened", files |-> file_create(ds, fs, path, "").files]

\* The two halves in which a config text is written.
FirstHalf(text) == SubSeq(text, 1, Len(text) \div 2)
SecondHalf(text) == SubSeq(text, Len(text) \div 2 + 1, Len(text))

\* One write_fw_config invocation: its arguments, the call it is at (phase),
\* whether create_new made the network config, and its result.
WriteJob(a, fw_driver, net_conf, port_conf) ==
    [op |-> "write_fw_config", a |-> a, fw_driver |-> fw_driver, net_conf |-> net_conf,
     port_conf |-> port_conf, phase |-> "create_dirs", created |-> FALSE, off |-> 0,
     res |-> "running"]

\* Containers 123 and 456 attached to network abc, each with a network config of
\* its own.
WritePairs ==
    {<<WriteJob(<<"abc", "123">>, "iptables", c1, q1), WriteJob(<<"abc", "456">>, "iptables", c2, q2)>> :
        <<c1, c2, q1, q2>> \in {x \in TestNetConfs \X TestNetConfs \X TestPortConfs \X TestPortConfs :
                                   x[1] # x[2]}}

ConcStoreInit ==
    /\ \E admin \in BOOLEAN : fw = HostFirewall(admin)
    /\ sysctl = {}
    /\ last = NoCall
    /\ netsEver = {}
    /\ pfEver = {}
    /\ pfActive = {}
    /\ nops = 0
    /\ procs \in WritePairs
    /\ StoreInit

\* The process goes on to its next call, or returns the error.
Goes(pr, ok, phase) ==
    IF ok THEN [pr EXCEPT !.phase = phase, !.res = IF phase = "done" THEN "ok" ELSE "running"]
    ELSE [pr EXCEPT !.phase = "done", !.res = "err"]

\* get_file_paths with create_dirs: create_dir_all of the three directories.
WriteCreateDirs(p) ==
    /\ procs[p].phase = "create_dirs"
    /\ dirs' = get_file_paths(dirs, ConfigDir, procs[p].a[1], procs[p].a[2], TRUE).dirs
    /\ procs' = [procs EXCEPT ![p] = Goes(@, TRUE, "create_driver")]
    /\ UNCHANGED <<fw, sysctl, last, netsEver, pfEver, pfActive, nops, files, slast, written>>

\* File::create of the firewall-driver file.
WriteCreateDriver(p) ==
    /\ procs[p].phase = "create_driver"
    /\ LET Done(r) ==
               /\ files' = r.files
               /\ procs' = [procs EXCEPT ![p] = Goes(@, r.ok, "write_driver")]
       IN Done(file_create(dirs, files, KnownPaths[procs[p].a].fw_driver_file, ""))
    /\ UNCHANGED <<fw, sysctl, last, netsEver, pfEver, pfActive, nops, dirs, slast, written>>

\* write_all of the driver name.
WriteDriver(p) ==
    /\ procs[p].phase = "write_driver"
    /\ files' = write_at(files, KnownPaths[procs[p].a].fw_driver_file, 0, procs[p].fw_driver)
    /\ procs' = [procs EXCEPT ![p] = Goes(@, TRUE, "open_net")]
    /\ UNCHANGED <<fw, sysctl, last, netsEver, pfEver, pfActive, nops, dirs, slast, written>>

\* The create_new open of the network config: AlreadyExists is no error.
WriteOpenNet(p) ==
    /\ procs[p].phase = "open_net"
    /\ LET Done(r) ==
               /\ files' = r.files
               /\ procs' = [procs EXCEPT ![p] =
                               IF r.res = "opened"
                               THEN [@ EXCEPT !.phase = "write_net", !.created = TRUE]
                               ELSE Goes(@, r.res = "exists", "create_port")]
       IN Done(open_create_new(dirs, files, KnownPaths[procs[p].a].net_conf_file))
    /\ UNCHANGED <<fw, sysctl, last, netsEver, pfEver, pfActive, nops, dirs, slast, written>>

\* serde_json::to_writer on the network config: one half per write call.
WriteNet(p) ==
    /\ procs[p].phase = "write_net"
    /\ LET Half(text) ==
               IF procs[p].off = 0
               THEN /\ files' = write_at(files, KnownPaths[procs[p].a].net_conf_file, 0,
                                         FirstHalf(text))
                    /\ procs' = [procs EXCEPT ![p].off = Len(FirstHalf(text))]
               ELSE /\ files' = write_at(files, KnownPaths[procs[p].a].net_conf_file,
                                         procs[p].off, SecondHalf(text))
                    /\ procs' = [procs EXCEPT ![p] = Goes(@, TRUE, "create_port")]
       IN Half(NetJson[procs[p].net_conf])
    /\ UNCHANGED <<fw, sysctl, last, netsEver, pfEver, pfActive, nops, dirs, slast, written>>

\* File::create of the port config.
WriteCreatePort(p) ==
    /\ procs[p].phase = "create_port"
    /\ LET Done(r) ==
               /\ files' = r.files
               /\ procs' = [procs EXCEPT ![p] = Goes(@, r.ok, "write_port")]
       IN Done(file_create(dirs, files, KnownPaths[procs[p].a].port_conf_file, ""))
    /\ UNCHANGED <<fw, sysctl, last, netsEver, pfEver, pfActive, nops, dirs, slast, written>>

\* serde_json::to_writer on the port config, a file of this process alone.
WritePort(p) ==
    /\ procs[p].phase = "write_port"
    /\ files' = write_at(files, KnownPaths[procs[p].a].port_conf_file, 0,
                         PortJson[procs[p].port_conf])
    /\ procs' = [procs EXCEPT ![p] = Goes(@, TRUE, "done")]
    /\ UNCHANGED <<fw, sysctl, last, netsEver, pfEver, pfActive, nops, dirs, slast, written>>

ConcStoreNext ==
    \/ \E p \in Procs : WriteCreateDirs(p)
    \/ \E p \in Procs : WriteCreateDriver(p)
    \/ \E p \in Procs : WriteDriver(p)
    \/ \E p \in Procs : WriteOpenNet(p)
    \/ \E p \in Procs : WriteNet(p)
    \/ \E p \in Procs : WriteCreatePort(p)
    \/ \E p \in Procs : WritePort(p)

ConcStoreSpec == ConcStoreInit /\ [][ConcStoreNext]_vars

----------------------------------------------------------------------------
(* The caller's use of driver and store together, and the replay after an  *)
(* external reload: the store is read and the setup operations are made    *)
(* again for every entry.                                                  *)

\* Attaching a container: setup_network, setup_port_forward, and on success
\* write_fw_config with the same descriptors.
attach(f, sc, ds, fs, c) ==
    LET Stop(f1, sc1) == [ok |-> FALSE, fw |-> f1, sysctl |-> sc1, dirs |-> ds, files |-> fs]
        Net(r1) ==
            IF ~r1.ok THEN Stop(r1.fw, sc)
            ELSE LET Pf(r2) ==
                         IF r2.res # "ok" THEN Stop(r2.fw, r2.sysctl)
                         ELSE LET Write(w) == [ok |-> w.ok, fw |-> r2.fw, sysctl |-> r2.sysctl,
                                               dirs |-> w.dirs, files |-> w.files]
                              IN Write(write_fw_config(ds, fs, ConfigDir, AttachmentOf(c)[1],
                                                       AttachmentOf(c)[2], "iptables",
                                                       StoredNet(NetOf(c)), StoredPort(c)))
                 IN Pf(setup_port_forward(r1.fw, sc, c))
    IN Net(setup_network(f, NetOf(c)))

\* Detaching a container: teardown_port_forward, teardown_network, and on success
\* remove_fw_config, all with the same complete_teardown.
detach(f, ds, fs, c, complete_teardown) ==
    LET Stop(f1) == [ok |-> FALSE, fw |-> f1, files |-> fs]
        Pf(r1) ==
            IF r1.res # "ok" THEN Stop(r1.fw)
            ELSE LET Net(r2) ==
                         IF ~r2.ok THEN Stop(r2.fw)
                         ELSE LET Remove(w) == [ok |-> w.ok, fw |-> r2.fw, files |-> w.files]
                              IN Remove(remove_fw_config(ds, fs, ConfigDir, AttachmentOf(c)[1],
                                                         AttachmentOf(c)[2], complete_teardown))
                 IN Net(teardown_network(r1.fw, NetOf(c), complete_teardown))
    IN Pf(teardown_port_forward(f, c, complete_teardown))

\* An external reload: the chains and rules of netavark are gone, the host's own
\* rules are back.
Flushed(f) ==
    [k \in BuiltinChains |->
        SelectSeq(f[k], LAMBDA rule : rule \in {AdminForwardRule, AdminPostroutingRule})]

\* The helper calls of setup_network for a stored network config.
replay_network_calls(conf) ==
    setup_network_calls(Network(conf.subnets, Some(conf.bridge_name)), conf.network_hash_name)

\* The arguments of setup_port_forward rebuilt from a stored port config.
ReplayedPfCall(conf) ==
    [network |-> Network(IF conf.subnet_v4.some THEN Some(<<conf.subnet_v4.v>>) ELSE None, None),
     container_id |-> conf.container_id,
     port_mappings |-> IF conf.port_mappings.some THEN conf.port_mappings.v ELSE <<>>,
     network_name |-> conf.network_name,
     id_network_hash |-> conf.network_hash_name,
     static_ips |-> IF conf.container_ip_v4.some THEN Some(<<conf.container_ip_v4.v>>) ELSE None]

\* The helper calls of setup_port_forward for a stored port config; none when
\* the call returns its config error.
replay_port_forward_calls(conf) ==
    LET Calls(c) ==
            IF ~c.static_ips.some \/ ~c.network.subnets.some THEN <<>>
            ELSE setup_port_forward_calls(c)
    IN Calls(ReplayedPfCall(conf))

\* setup_network for every stored network config, in the order read.
RECURSIVE replay_networks(_, _)
replay_networks(f, confs) ==
    IF confs = <<>> THEN Ok(f)
    ELSE LET Then(r) == IF r.ok THEN replay_networks(r.fw, Tail(confs)) ELSE r
         IN Then(Run(f, replay_network_calls(Head(confs))))

\* setup_port_forward for every stored port config, in the order read.
RECURSIVE replay_port_forwards(_, _)
replay_port_forwards(f, confs) ==
    IF confs = <<>> THEN Ok(f)
    ELSE LET HasAddresses(conf) == conf.container_ip_v4.some /\ conf.subnet_v4.some
             Then(r) == IF r.ok THEN replay_port_forwards(r.fw, Tail(confs)) ELSE r
         IN IF ~HasAddresses(Head(confs)) THEN Err(f)
            ELSE Then(Run(f, replay_port_forward_calls(Head(confs))))

\* The replay: nothing is set up when the store cannot be read.
replay(f, read) ==
    IF ~read.ok THEN Err(f)
    ELSE LET Ports(r) == IF r.ok THEN replay_port_forwards(r.fw, read.val.port_confs) ELSE r
         IN Ports(replay_networks(f, read.val.net_confs))

\* The record of a caller's step; pre is the firewall before it, stored what
\* read_fw_config returned to the replay.
CallerRecord(op, arg, complete, ok, pre, stored) ==
    [op |-> op, arg |-> arg, complete |-> complete, res |-> IF ok THEN "ok" ELSE "err",
     repeat |-> FALSE, pre |-> pre, stored |-> stored]

Attach(c) ==
    /\ nops < MaxOps
    /\ c \notin pfActive
    /\ LET Done(r) ==
               /\ fw' = r.fw
               /\ sysctl' = r.sysctl
               /\ dirs' = r.dirs
               /\ files' = r.files
               /\ last' = CallerRecord("attach", c, FALSE, r.ok, fw, NoConfig)
               /\ pfActive' = IF r.ok THEN pfActive \cup {c} ELSE pfActive
       IN Done(attach(fw, sysctl, dirs, files, c))
    /\ nops' = nops + 1
    /\ UNCHANGED <<netsEver, pfEver, slast, written, procs>>

\* complete_teardown is set when no other attached container is on the network.
Detach(c) ==
    /\ nops < MaxOps
    /\ c \in pfActive
    /\ LET Done(complete_teardown, r) ==
               /\ fw' = r.fw
               /\ files' = r.files
               /\ last' = CallerRecord("detach", c, complete_teardown, r.ok, fw, NoConfig)
               /\ pfActive' = IF r.ok THEN pfActive \ {c} ELSE pfActive
           Last(complete_teardown) ==
               Done(complete_teardown, detach(fw, dirs, files, c, complete_teardown))
       IN Last(\A d \in pfActive \ {c} : d.id_network_hash # c.id_network_hash)
    /\ nops' = nops + 1
    /\ UNCHANGED <<sysctl, netsEver, pfEver, dirs, slast, written, procs>>

Reload ==
    /\ nops < MaxOps
    /\ LET Done(read, r) ==
               /\ fw' = r.fw
               /\ last' = CallerRecord("reload", NetNone, FALSE, r.ok, fw, read.val)
           Replay(read) == Done(read, replay(Flushed(fw), read))
           Read(paths) ==
               \E net_listing \in Listings(dirs, files, paths.net_conf_file),
                  port_listing \in Listings(dirs, files, paths.port_conf_file) :
                  Replay(read_fw_config(dirs, files, ConfigDir, net_listing, port_listing))
       IN Read(get_file_paths(dirs, ConfigDir, "", "", FALSE))
    /\ nops' = nops + 1
    /\ UNCHANGED <<sysctl, netsEver, pfEver, pfActive, dirs, files, slast, written, procs>>

ReplayNext ==
    \/ \E c \in GoodPfCalls : Attach(c)
    \/ \E c \in GoodPfCalls : Detach(c)
    \/ Reload

ReplaySpec == Init /\ [][ReplayNext]_vars

----------------------------------------------------------------------------
(* Properties of the driver (checked under Spec) *)

FilterForward == <<FILTER_JUMP, FORWARD>>
NatChain(chain) == <<NAT, chain>>

\* Occurrences of a rule text in a chain of firewall f, 0 when the chain is missing.
Occurs(f, key, rule) == IF key \in DOMAIN f THEN Count(f[key], rule) ELSE 0

NoDuplicates(f) == \A k \in DOMAIN f : \A i, j \in DOMAIN f[k] : f[k][i] = f[k][j] => i = j

RECURSIVE ContainsFrom(_, _, _)
ContainsFrom(str, sub, i) ==
    IF i + Len(sub) - 1 > Len(str) THEN FALSE
    ELSE IF SubSeq(str, i, i + Len(sub) - 1) = sub THEN TRUE
    ELSE ContainsFrom(str, sub, i + 1)

\* sub occurs in str.
Contains(str, sub) == ContainsFrom(str, sub, 1)

HasSubnet(n) == n.net.subnets.some /\ n.net.subnets.v # <<>>

\* C1: every setup_network call returns Ok, and one that directly follows a
\* setup_network call with the same network and hash leaves every chain and every
\* ordered rule list as the first call left it, with no rule text twice in a chain.
C1_SetupNetworkTwice ==
    [][(last'.op = "setup_network" /\ nops' = nops + 1)
          => /\ last'.res = "ok"
             /\ last'.repeat => (fw' = fw /\ NoDuplicates(fw'))]_vars

C1_Witness ==
    /\ last.op = "setup_network" /\ last.repeat /\ last.res = "ok"
    /\ last.arg = NetB
    /\ Len(fw[<<FILTER_JUMP, PRIV_CHAIN_NAME>>]) >= 4

\* The jump into NETAVARK_FORWARD is rule 1 of filter FORWARD and occurs once.
JumpFirstOnce ==
    /\ fw[FilterForward] # <<>>
    /\ fw[FilterForward][1] = netavark_fw
    /\ Count(fw[FilterForward], netavark_fw) = 1

\* C2 as stated: after any successful setup_network call, whatever the network
\* and its subnets, the jump rule is rule 1 of FORWARD and occurs once.
C2_Original == (last.op = "setup_network" /\ last.res = "ok") => JumpFirstOnce

\* C2 amended: once setup_network has succeeded for a network with at least one
\* subnet, the jump into NETAVARK_FORWARD is rule 1 of filter FORWARD and occurs
\* exactly once, after any further driver calls.
C2_JumpFirstOnce == (\E n \in netsEver : HasSubnet(n)) => JumpFirstOnce

C2_Witness ==
    /\ {NetA, NetB} \subseteq netsEver
    /\ last.op = "setup_network"
    /\ Len(fw[FilterForward]) = 2
    /\ fw[FilterForward][2] = AdminForwardRule

\* C8: teardown_network (either value of complete_teardown) or teardown_port_forward
\* for a network / port-forward never set up returns Ok and adds nothing: every
\* chain existed before and holds no rule it did not hold before.
C8_TeardownNeverSetUp ==
    [][(\/ (last'.op = "teardown_network" /\ nops' = nops + 1 /\ last'.arg \notin netsEver)
        \/ (last'.op = "teardown_port_forward" /\ nops' = nops + 1
            /\ last'.arg \in GoodPfCalls /\ last'.arg \notin pfEver))
          => /\ last'.res = "ok"
             /\ \A k \in DOMAIN fw' :
                   k \in DOMAIN fw /\ \A i \in DOMAIN fw'[k] :
                       Occurs(fw', k, fw'[k][i]) <= Occurs(fw, k, fw'[k][i])]_vars

\* The rules of POSTROUTING sourced from address ip that carry the comment.
PostroutingRulesOf(f, ip, comment) ==
    {i \in DOMAIN f[NatChain(POSTROUTING_JUMP)] :
        /\ Contains(f[NatChain(POSTROUTING_JUMP)][i], " -s " \o ip \o " ")
        /\ Contains(f[NatChain(POSTROUTING_JUMP)][i], comment)}

\* C9: after a successful setup_port_forward, for every mapping h -> p of the call:
\* NETAVARK-HOSTPORT-DNAT holds once the rule of the container matching port h and
\* jumping to NETAVARK-DN-<hash>; NETAVARK-DN-<hash> holds once each the mark rule
\* for h sourced from the subnet, the one sourced from 127.0.0.1 and the DNAT rule
\* rewriting to ip:p; and POSTROUTING holds exactly one rule sourced from ip that
\* carries the comment naming the network and the container.
C9_PortForwardRules ==
    (last.op = "setup_port_forward" /\ last.res = "ok") =>
        LET c == last.arg
            dn == network_dn_chain_name(c.id_network_hash)
            ip == c.static_ips.v[1]
            subnet == c.network.subnets.v[1]
            entry(pm) == hostport_dnat_rule(dn, pm.host_port,
                             comment_dn_network_cid(c.network_name, c.container_id))
        IN /\ \A i \in DOMAIN c.port_mappings :
                 LET pm == c.port_mappings[i]
                 IN /\ Occurs(fw, NatChain(HOSTPORT_DNAT_CHAIN), entry(pm)) = 1
                    /\ ParseTarget(entry(pm)) = dn
                    /\ Contains(entry(pm), "--destination-ports " \o ToString(pm.host_port) \o " ")
                    /\ Occurs(fw, NatChain(dn),
                              "-j NETAVARK-HOSTPORT-SETMARK -s " \o subnet
                                  \o " -p tcp --dport " \o ToString(pm.host_port)) = 1
                    /\ Occurs(fw, NatChain(dn),
                              "-j NETAVARK-HOSTPORT-SETMARK -s 127.0.0.1 -p tcp --dport "
                                  \o ToString(pm.host_port)) = 1
                    /\ Occurs(fw, NatChain(dn),
                              "-j DNAT -p tcp --to-destination " \o ip \o ":"
                                  \o ToString(pm.container_port) \o " --destination-port "
                                  \o ToString(pm.host_port)) = 1
           /\ Cardinality(PostroutingRulesOf(fw, ip,
                  "'name: " \o c.network_name \o " id: " \o c.container_id \o "'")) = 1

C9_Witness ==
    /\ last.op = "setup_port_forward" /\ last.res = "ok"
    /\ last.arg = PfA2
    /\ PfA1 \in pfActive
    /\ Len(fw[NatChain(network_dn_chain_name("hash"))]) >= 6

\* C10: teardown_port_forward (not complete) with the config of a port-forward that
\* is set up removes every rule of that container, and leaves every rule of the
\* other port-forwards that are set up, and every other rule, as it was.
C10_TeardownExactly ==
    [][(/\ last'.op = "teardown_port_forward" /\ nops' = nops + 1
        /\ last'.res = "ok" /\ ~last'.complete /\ last'.arg \in pfActive)
          => /\ \A i \in DOMAIN PfPrograms[last'.arg].rules :
                   LET r == PfPrograms[last'.arg].rules[i]
                   IN Occurs(fw', NatChain(r.chain), r.rule) = 0
             /\ \A c \in pfActive \ {last'.arg} :
                   \A i \in DOMAIN PfPrograms[c].rules :
                       LET r == PfPrograms[c].rules[i]
                       IN Occurs(fw', NatChain(r.chain), r.rule)
                              = Occurs(fw, NatChain(r.chain), r.rule)
             /\ Occurs(fw', NatChain(POSTROUTING_JUMP), AdminPostroutingRule)
                    = Occurs(fw, NatChain(POSTROUTING_JUMP), AdminPostroutingRule)
             /\ fw'[FilterForward] = fw[FilterForward]]_vars

\* The key of NETAVARK_FORWARD in the filter table.
PrivChain == <<FILTER_JUMP, PRIV_CHAIN_NAME>>

\* The subnets of a network call, none when the list is absent.
SubnetsOf(n) == IF n.net.subnets.some THEN Range(n.net.subnets.v) ELSE {}

\* C12: teardown_network for a network that was set up returns Ok and leaves, for
\* every subnet of the network, the inbound established/related allow rule and the
\* outbound allow rule exactly once in NETAVARK_FORWARD when complete_teardown is
\* false, and absent when it is true.
C12_TeardownAllowRules ==
    (last.op = "teardown_network" /\ last.arg \in netsEver) =>
        /\ last.res = "ok"
        /\ \A subnet \in SubnetsOf(last.arg) :
              /\ Occurs(fw, PrivChain, allow_incoming_rule(subnet))
                    = (IF last.complete THEN 0 ELSE 1)
              /\ Occurs(fw, PrivChain, allow_outgoing_rule(subnet))
                    = (IF last.complete THEN 0 ELSE 1)

C12_Witness ==
    /\ last.op = "teardown_network" /\ last.complete /\ last.res = "ok"
    /\ last.arg = NetB /\ {NetA, NetB} \subseteq netsEver
    /\ Len(fw[PrivChain]) = 2
    /\ Occurs(fw, PrivChain, allow_outgoing_rule("10.0.0.0/24")) = 1

\* C13: setup_port_forward without a container address or without a subnet (the
\* list absent, or present and empty) returns a configuration error, does not
\* crash, and leaves every chain and rule as it was.
C13_MissingAddress ==
    [][(last'.op = "setup_port_forward" /\ nops' = nops + 1 /\ last'.arg \in BadPfCalls)
          => (last'.res = "err" /\ fw' = fw)]_vars

\* C15: after a successful setup_network for a network with one or more subnets
\* the masquerade rule is the last rule of NETAVARK-<hash>.
C15_MasqueradeLast ==
    (last.op = "setup_network" /\ last.res = "ok" /\ HasSubnet(last.arg)) =>
        LET chain == NatChain("NETAVARK-" \o last.arg.network_hash_name)
        IN /\ chain \in DOMAIN fw
           /\ fw[chain] # <<>>
           /\ fw[chain][Len(fw[chain])] = masq_rule

SharedChains ==
    {NatChain(HOSTPORT_DNAT_CHAIN), NatChain(HOSTPORT_SETMARK_CHAIN),
     NatChain(NETAVARK_HOSTPORT_MASK_CHAIN)}

\* The rule texts a teardown call removes one by one: the rules of its container.
OwnRules(op, arg) ==
    IF op = "teardown_port_forward" /\ arg \in GoodPfCalls
    THEN {PfPrograms[arg].rules[i].rule : i \in DOMAIN PfPrograms[arg].rules}
    ELSE {}

\* C17: a shared chain that exists exists after every driver call, and a teardown
\* call does not flush it: every rule of the chain other than the rules of the
\* call's own container stays, as often as it was there.
C17_SharedChainsKept ==
    [][\A k \in SharedChains \cap DOMAIN fw :
          /\ k \in DOMAIN fw'
          /\ (nops' = nops + 1 /\ last'.op \in {"teardown_network", "teardown_port_forward"})
                => \A i \in DOMAIN fw[k] :
                      \/ fw[k][i] \in OwnRules(last'.op, last'.arg)
                      \/ Occurs(fw', k, fw[k][i]) = Occurs(fw, k, fw[k][i])]_vars

C17_Witness ==
    /\ last.op = "teardown_port_forward" /\ last.complete /\ last.res = "ok"
    /\ last.arg \in pfEver
    /\ SharedChains \subseteq DOMAIN fw
    /\ fw[NatChain(HOSTPORT_SETMARK_CHAIN)] = <<setmark_rule>>
    /\ NatChain(network_dn_chain_name(last.arg.id_network_hash)) \notin DOMAIN fw

\* The port-forwards set up on the network of call c.
OnNetwork(active, c) == {d \in active : d.id_network_hash = c.id_network_hash}

\* C18: when teardown_port_forward for the only container set up on a network
\* returns Ok, then with complete_teardown neither NETAVARK-<hash> nor
\* NETAVARK-DN-<hash> exists afterwards and no rule of the nat table jumps to
\* either, and without complete_teardown both chains exist afterwards.
C18_CompleteTeardownChains ==
    [][(/\ last'.op = "teardown_port_forward" /\ nops' = nops + 1 /\ last'.res = "ok"
        /\ last'.arg \in pfActive /\ OnNetwork(pfActive, last'.arg) = {last'.arg})
          => LET plain == network_chain_name(last'.arg.id_network_hash)
                 dn == network_dn_chain_name(last'.arg.id_network_hash)
             IN IF last'.complete
                THEN /\ NatChain(plain) \notin DOMAIN fw'
                     /\ NatChain(dn) \notin DOMAIN fw'
                     /\ ~Referenced(fw', NAT, plain)
                     /\ ~Referenced(fw', NAT, dn)
                ELSE /\ NatChain(plain) \in DOMAIN fw'
                     /\ NatChain(dn) \in DOMAIN fw']_vars

C18_Witness ==
    /\ last.op = "teardown_port_forward" /\ last.complete /\ last.res = "ok"
    /\ last.arg = PfA1 /\ PfA1 \in pfEver /\ pfActive = {}
    /\ NatChain("NETAVARK-hash") \notin DOMAIN fw
    /\ NatChain("NETAVARK-DN-hash") \notin DOMAIN fw
    /\ fw[NatChain(HOSTPORT_DNAT_CHAIN)] = <<>>

\* C19: when a setup_network or setup_port_forward call was aborted by a backend
\* failure and the next call, with the same arguments, returns Ok, the firewall
\* has the chains and the rule lists that one successful call leaves when made on
\* the firewall as it was before the aborted call.
C19_RetryCompletes ==
    /\ (last.op = "setup_network_retried" /\ last.res = "ok")
          => LET Same(once) == once.ok /\ fw = once.fw
             IN Same(setup_network(last.pre, last.arg))
    /\ (last.op = "setup_port_forward_retried" /\ last.res = "ok")
          => LET Same(once) == once.res = "ok" /\ fw = once.fw
             IN Same(setup_port_forward(last.pre, sysctl, last.arg))

C19_Witness ==
    /\ last.op = "setup_port_forward_retried" /\ last.res = "ok" /\ last.arg = PfA2
    /\ fw # last.pre
    /\ NatChain(HOSTPORT_SETMARK_CHAIN) \in DOMAIN last.pre
    /\ Len(last.pre[NatChain(HOSTPORT_DNAT_CHAIN)]) = 1
    /\ Len(fw[NatChain(HOSTPORT_DNAT_CHAIN)]) = 3

\* Both concurrent invocations have returned.
BothReturned == DOMAIN procs = Procs /\ \A p \in Procs : procs[p].phase = "done"

\* The firewall after the two invocations made one after the other, p first.
OneAfterTheOther(p, q) ==
    LET Second(r) == Run(r.fw, procs[q].calls).fw
    IN Second(Run(procs[p].start, procs[p].calls))

\* C11: two setup invocations for different networks or containers, interleaved
\* at single backend calls, both return Ok and leave the chains that running them
\* one after the other leaves, each with the same rules and no rule twice.
C11_ConcurrentSetups ==
    (BothReturned /\ \A p \in Procs : procs[p].op \in {"setup_network", "setup_port_forward"})
       => /\ \A p \in Procs : procs[p].res = "ok"
          /\ LET Same(seq) == /\ DOMAIN fw = DOMAIN seq
                              /\ \A k \in DOMAIN fw : Range(fw[k]) = Range(seq[k])
             IN Same(OneAfterTheOther(1, 2))
          /\ NoDuplicates(fw)

\* What a removal call is there to remove is gone from the firewall.
Removed(f, c) ==
    CASE c.kind = "remove_if_rule_exists" -> ~exists(f, c.table, c.chain, c.rule)
      [] c.kind = "remove_chain_and_rules" -> ~chain_exists(f, c.table, c.chain)

\* C20: when two processes remove the same rule with remove_if_rule_exists, or the
\* same chain with remove_chain_and_rules, under any interleaving of their backend
\* calls, both return Ok and the rule or chain is absent at the end.
C20_ConcurrentRemovals ==
    (BothReturned /\ \A p \in Procs :
                        procs[p].op \in {"remove_if_rule_exists", "remove_chain_and_rules"})
       => /\ \A p \in Procs : procs[p].res = "ok"
          /\ \A p \in Procs : Removed(fw, procs[p].calls[1])

\* The rules a list of helper calls appends or inserts, each with table and chain.
RulesOfCalls(calls) ==
    {<<calls[i].table, calls[i].chain, calls[i].rule>> :
        i \in {j \in DOMAIN calls : calls[j].kind # "add_chain_unique"}}

\* The firewalls f and g hold the same of these rules.
SameRules(f, g, rules) ==
    \A r \in rules : exists(f, r[1], r[2], r[3]) <=> exists(g, r[1], r[2], r[3])

\* C14: after attaches and detaches, when the firewall is flushed and the setup
\* operations are made again for every entry read_fw_config returns, the rules of
\* every stored network and container are in their chains exactly when they were
\* there before the flush.
C14_ReplayRestores ==
    last.op = "reload"
       => /\ \A i \in DOMAIN last.stored.net_confs :
                SameRules(last.pre, fw, RulesOfCalls(replay_network_calls(last.stored.net_confs[i])))
          /\ \A i \in DOMAIN last.stored.port_confs :
                SameRules(last.pre, fw,
                          RulesOfCalls(replay_port_forward_calls(last.stored.port_confs[i])))

\* The chains the rules of setup_port_forward jump into.
JumpedIntoChains(c) ==
    {HOSTPORT_DNAT_CHAIN, HOSTPORT_SETMARK_CHAIN, NETAVARK_HOSTPORT_MASK_CHAIN,
     network_dn_chain_name(c.id_network_hash), network_chain_name(c.id_network_hash)}

\* C21: setup_port_forward with both addresses given leaves every chain its rules
\* jump into in the nat table, NETAVARK-<hash> included, whether or not
\* setup_network ran before, so the POSTROUTING rule of the container never meets
\* a missing chain.
C21_ChainsEnsured ==
    (last.op = "setup_port_forward" /\ last.arg \in GoodPfCalls)
       => \A chain \in JumpedIntoChains(last.arg) : NatChain(chain) \in DOMAIN fw

\* Rule a stands before rule b in the list.
Before(rules, a, b) == \E i, j \in DOMAIN rules : i < j /\ rules[i] = a /\ rules[j] = b

\* C24: after successful setup_port_forward and non-complete teardown_port_forward
\* calls, every DNAT rewrite rule in NETAVARK-DN-<hash> for a host port has both
\* mark-setting rules of that port, from the subnet and from 127.0.0.1, before it
\* in the chain.
C24_MarkBeforeDnat ==
    \A c \in GoodPfCalls : \A k \in DOMAIN c.port_mappings :
        LET Marked(chain, pm) ==
                \A i \in DOMAIN chain :
                    chain[i] = container_dest_rule(c.static_ips.v[1], pm.container_port,
                                                   pm.host_port)
                       => /\ Before(chain, setmark_network_rule(c.network.subnets.v[1],
                                                                pm.host_port), chain[i])
                          /\ Before(chain, setmark_localhost_rule(pm.host_port), chain[i])
            RulesOf(key) == IF key \in DOMAIN fw THEN fw[key] ELSE <<>>
        IN Marked(RulesOf(NatChain(network_dn_chain_name(c.id_network_hash))),
                  c.port_mappings[k])

----------------------------------------------------------------------------
(* Properties of the config store (checked under StoreSpec) *)

\* The file layout documented in state.rs.
NetPath(network_id) == "/run/netavark/firewall/networks/" \o network_id
PortPath(network_id, container_id) ==
    "/run/netavark/firewall/ports/" \o network_id \o "_" \o container_id

\* C3: a successful write_fw_config for a network id whose network config is
\* stored leaves that file with the content it had, which is the content of the
\* first write, whatever network config the call brings.
C3_FirstWriterWins ==
    (slast.op = "write_fw_config" /\ slast.ok /\ slast.pre.net.some) =>
        /\ NetPath(slast.network_id) \in DOMAIN files
        /\ files[NetPath(slast.network_id)] = slast.pre.net.v
        /\ files[NetPath(slast.network_id)] = NetJson[written.nets[slast.network_id]]

C3_Witness ==
    /\ slast.op = "write_fw_config" /\ slast.ok /\ slast.pre.net.some
    /\ slast.pre.net.v # NetJson[slast.net_conf.v]
    /\ ~slast.pre.port.some

\* C4: after a successful write_fw_config the port config stored for the
\* (network id, container id) pair is the content of that write, also when the
\* pair had another port config stored.
C4_PortOverwritten ==
    (slast.op = "write_fw_config" /\ slast.ok) =>
        /\ PortPath(slast.network_id, slast.container_id) \in DOMAIN files
        /\ files[PortPath(slast.network_id, slast.container_id)] = PortJson[slast.port_conf.v]

C4_Witness ==
    /\ slast.op = "write_fw_config" /\ slast.ok /\ slast.pre.port.some
    /\ slast.pre.port.v # PortJson[slast.port_conf.v]

\* C5: a successful remove_fw_config(N, C, complete_teardown) removes the port
\* config of (N, C), with complete_teardown also the network config of N, and
\* nothing else: without complete_teardown the network config of N stays as it is.
C5_RemoveFrame ==
    [][(slast'.op = "remove_fw_config" /\ nops' = nops + 1 /\ slast'.ok) =>
          LET net == NetPath(slast'.network_id)
              port == PortPath(slast'.network_id, slast'.container_id)
              gone == IF slast'.complete THEN {port, net} ELSE {port}
          IN files' = [q \in DOMAIN files \ gone |-> files[q]]]_vars

C5_Witness ==
    /\ slast.op = "remove_fw_config" /\ slast.ok /\ ~slast.complete
    /\ slast.pre.port.some /\ slast.pre.net.some
    /\ NetPath(slast.network_id) \in DOMAIN files
    /\ PortPath(slast.network_id, slast.container_id) \notin DOMAIN files

\* C6 as stated: remove_fw_config for a pair whose port config or network config
\* is not stored returns Ok and leaves the config store unchanged.
C6_Original ==
    [][(/\ slast'.op = "remove_fw_config" /\ nops' = nops + 1
        /\ (~slast'.pre.port.some \/ ~slast'.pre.net.some))
          => (slast'.ok /\ files' = files /\ dirs' = dirs)]_vars

\* C6 amended: remove_fw_config returns Ok whatever is stored, and leaves the
\* config store unchanged when no file it is to remove is stored (the port config,
\* and with complete_teardown the network config); so a second call right after a
\* removal succeeds and changes nothing.
C6_RemoveAbsent ==
    [][(slast'.op = "remove_fw_config" /\ nops' = nops + 1) =>
          /\ slast'.ok
          /\ (~slast'.pre.port.some /\ (slast'.complete => ~slast'.pre.net.some))
                => (files' = files /\ dirs' = dirs)]_vars

C6_Witness ==
    /\ slast.op = "remove_fw_config" /\ slast.ok /\ slast.repeat /\ slast.complete
    /\ ~slast.pre.port.some /\ ~slast.pre.net.some
    /\ written.driver.some

\* The sequence holds exactly one value per key of the function, the function's.
OnePerKey(confs, stored) ==
    \E order \in [DOMAIN confs -> DOMAIN stored] :
        /\ \A i, j \in DOMAIN confs : i # j => order[i] # order[j]
        /\ \A k \in DOMAIN stored : \E i \in DOMAIN confs : order[i] = k
        /\ \A i \in DOMAIN confs : confs[i] = stored[order[i]]

\* C7: once a write has succeeded, read_fw_config returns Ok with the driver name
\* of the latest write, one network config per network id written and not removed
\* by a complete teardown since (the first one written since), one port config per
\* (network id, container id) written and not removed since (the last one
\* written), and nothing else.
C7_ReadAll ==
    (slast.op = "read_fw_config" /\ written.driver.some) =>
        /\ slast.ok
        /\ slast.val.driver = written.driver.v
        /\ OnePerKey(slast.val.net_confs, written.nets)
        /\ OnePerKey(slast.val.port_confs, written.ports)

C7_Witness ==
    /\ slast.op = "read_fw_config" /\ slast.ok
    /\ Len(slast.val.port_confs) = 2
    /\ Len(slast.val.net_confs) = 1
    /\ slast.val.port_confs[1] # slast.val.port_confs[2]

\* C23: when two processes run write_fw_config at once for one network id with
\* different network configs, both return Ok and the stored network config is the
\* whole text of the one writer whose create_new made the file: no mix of the two
\* texts, and nothing of the other writer.
C23_ConcurrentWriters ==
    (BothReturned /\ \A p \in Procs : procs[p].op = "write_fw_config")
       => /\ \A p \in Procs : procs[p].res = "ok"
          /\ \E p \in Procs :
                /\ procs[p].created
                /\ \A q \in Procs \ {p} : ~procs[q].created
                /\ files[NetPath(procs[p].a[1])] = NetJson[procs[p].net_conf]

C23_Witness ==
    /\ BothReturned
    /\ \A p \in Procs : procs[p].op = "write_fw_config" /\ procs[p].res = "ok"
    /\ procs[2].created
    /\ files[NetPath("abc")] = NetJson[procs[2].net_conf]
    /\ files[NetPath("abc")] # NetJson[procs[1].net_conf]
    /\ PortPath("abc", "123") \in DOMAIN files /\ PortPath("abc", "456") \in DOMAIN files

\* C25: the write_fw_config that follows remove_fw_config with complete_teardown
\* for its network id stores the network config it brings, not the one stored
\* before the removal.
C25_NewLifetime ==
    (slast.op = "write_fw_config_after_removal" /\ slast.ok)
       => /\ NetPath(slast.network_id) \in DOMAIN files
          /\ files[NetPath(slast.network_id)] = NetJson[slast.net_conf.v]

C25_Witness ==
    /\ slast.op = "write_fw_config_after_removal" /\ slast.ok
    /\ slast.removed.some
    /\ slast.removed.v # NetJson[slast.net_conf.v]
    /\ files[NetPath(slast.network_id)] = NetJson[slast.net_conf.v]

\* C22: write_fw_config and remove_fw_config for one (network id, container id)
\* pair leave the port config entry of every other pair of non-empty ids as it
\* was: not created, not overwritten, not deleted.
C22_PortEntryNotShared ==
    [][(slast'.op \in {"write_fw_config", "remove_fw_config"} /\ nops' = nops + 1)
          => \A b \in KeyAttachments \cup Attachments :
                b # <<slast'.network_id, slast'.container_id>>
                   => /\ PortPath(b[1], b[2]) \in DOMAIN files
                            <=> PortPath(b[1], b[2]) \in DOMAIN files'
                      /\ PortPath(b[1], b[2]) \in DOMAIN files
                            => files'[PortPath(b[1], b[2])] = files[PortPath(b[1], b[2])]]_vars

====
